---- MODULE Spec2Model ----
(***************************************************************************)
(* ClaimGuard bill-analysis core: the fee calculator, the four category    *)
(* analyzers (medical, auto insurance, rent, utility) with their line      *)
(* extractors, and the category router.                                    *)
(*                                                                         *)
(* Numbers.  A JavaScript number that holds money, a usage or a rate is an *)
(* integer count of mills (1/1000 of a unit); NaN is the value NaN below.  *)
(* Arithmetic is exact decimal arithmetic: binary floating-point error is  *)
(* not modelled.  Math.round(x * 100) / 100 is RoundCents (half up).       *)
(* A confidence is kept in hundredths of a point (90 is 9000).             *)
(*                                                                         *)
(* Text.  A bill text is the sequence of its lines (billText.split("\n")), *)
(* each line a string; the regular expressions of the source are values of *)
(* a small regular-expression algebra, matched by an ordered backtracking  *)
(* matcher with the priorities of the JavaScript engine.                   *)
(***************************************************************************)
EXTENDS Integers, Sequences, FiniteSets, TLC

VARIABLES pc, op, arg, result, shared, history

vars == <<pc, op, arg, result, shared, history>>

\* ------------------------------------------------------------------ bounds
\* Fee inputs: MinFeeK..MaxFeeK multiples of FeeStep mills, plus a window of
\* FeeWindow mills on each side of the quick-win threshold.
MaxFeeK == 64
FeeWindow == 12
\* Medical texts hold up to MaxMedLines lines of the medical catalogue.
MaxMedLines == 2
\* Utility texts hold up to MaxEstLines estimated and MaxActLines actual
\* billing-period lines.
MaxEstLines == 14
MaxActLines == 2

\* ----------------------------------------------------------------- numbers
Scale == 1000
NaN == 0 - 2000000000

Min(a, b) == IF a <= b THEN a ELSE b
Max(a, b) == IF a >= b THEN a ELSE b

\* Math.round(x * 100) / 100 on mills: to the nearest cent, halves up (the
\* analyzers round sums and differences of the amounts read, and products
\* that are held exactly).
RoundCents(m) == ((m + 5) \div 10) * 10

\* Math.round(a / b) for b > 0 (halves up).
RoundDiv(a, b) == (2 * a + b) \div (2 * b)

Dollars(d) == d * Scale

\* ----------------------------------------------------------------- strings
Ch(s, i) == SubSeq(s, i, i)

CharsOf(s) == {Ch(s, i) : i \in 1..Len(s)}

DIGITS == "0123456789"
UPPER == "ABCDEFGHIJKLMNOPQRSTUVWXYZ"
LOWER == "abcdefghijklmnopqrstuvwxyz"

Digit == CharsOf(DIGITS)
UpperCh == CharsOf(UPPER)
Space == {" ", "\t"}
WordCh == Digit \cup UpperCh \cup CharsOf(LOWER) \cup {"_"}

IndexIn(alphabet, c) == CHOOSE k \in 1..Len(alphabet) : Ch(alphabet, k) = c

LowerMap == [c \in UpperCh |-> Ch(LOWER, IndexIn(UPPER, c))]
UpperMap == [c \in CharsOf(LOWER) |-> Ch(UPPER, IndexIn(LOWER, c))]

LowerCh(c) == IF c \in UpperCh THEN LowerMap[c] ELSE c

RECURSIVE ToLower(_)
ToLower(s) == IF s = "" THEN "" ELSE LowerCh(Head(s)) \o ToLower(Tail(s))

UpperOfCh(c) == IF c \in DOMAIN UpperMap THEN UpperMap[c] ELSE c

RECURSIVE ToUpper(_)
ToUpper(s) == IF s = "" THEN "" ELSE UpperOfCh(Head(s)) \o ToUpper(Tail(s))

RECURSIVE RemoveChars(_, _)
RemoveChars(s, cs) ==
    IF s = "" THEN ""
    ELSE IF Head(s) \in cs THEN RemoveChars(Tail(s), cs)
    ELSE Head(s) \o RemoveChars(Tail(s), cs)

RECURSIVE Concat(_)
Concat(ss) == IF ss = <<>> THEN <<>> ELSE Head(ss) \o Concat(Tail(ss))

\* ------------------------------------------------------ regular expressions
\* Each expression carries the set of characters a match can start with
\* (first) and whether it can match without consuming a character (open:
\* then first does not restrict where a match starts).
Lit(s) == [t |-> "lit", s |-> s, first |-> {Ch(s, 1)}, open |-> FALSE]
Set(cs) == [t |-> "set", cs |-> cs, first |-> cs, open |-> FALSE]
Dot == [t |-> "any", first |-> {}, open |-> TRUE]
WB == [t |-> "wb", first |-> {}, open |-> TRUE]

RECURSIVE CatFirst(_), CatOpen(_), AltFirst(_), AltOpen(_)
CatFirst(rs) ==
    IF rs = <<>> THEN {}
    ELSE Head(rs).first \cup (IF Head(rs).open THEN CatFirst(Tail(rs)) ELSE {})
CatOpen(rs) == IF rs = <<>> THEN TRUE ELSE Head(rs).open /\ CatOpen(Tail(rs))
AltFirst(rs) == IF rs = <<>> THEN {} ELSE Head(rs).first \cup AltFirst(Tail(rs))
AltOpen(rs) == IF rs = <<>> THEN FALSE ELSE Head(rs).open \/ AltOpen(Tail(rs))

Cat(rs) == [t |-> "cat", rs |-> rs, first |-> CatFirst(rs), open |-> CatOpen(rs)]
Alt(rs) == [t |-> "alt", rs |-> rs, first |-> AltFirst(rs), open |-> AltOpen(rs)]
Rep(r, lo, hi) ==
    [t |-> "rep", r |-> r, lo |-> lo, hi |-> hi, first |-> r.first, open |-> r.open \/ lo = 0]
Inf == 0 - 1
Opt(r) == Rep(r, 0, 1)
Star(r) == Rep(r, 0, Inf)
Plus(r) == Rep(r, 1, Inf)

IsWordAt(s, i) == i >= 1 /\ i <= Len(s) /\ Ch(s, i) \in WordCh

\* Ends(re, s, i): the positions after every match of re that starts at
\* position i of s, in the order in which a backtracking engine tries them
\* (greedy quantifiers, alternatives left to right).  The head is the match
\* the engine reports.
RECURSIVE RunEnd(_, _, _, _)
\* The position after the run of characters of cs that starts at i, at most limit.
RunEnd(cs, s, i, limit) ==
    IF i < limit /\ i <= Len(s) /\ Ch(s, i) \in cs THEN RunEnd(cs, s, i + 1, limit) ELSE i

RECURSIVE Ends(_, _, _), CatEnds(_, _, _), AltEnds(_, _, _), RepEnds(_, _, _, _, _), EachEnd(_, _, _, _, _, _)
Ends(re, s, i) ==
    CASE re.t = "lit" -> IF SubSeq(s, i, Min(Len(s), i + Len(re.s) - 1)) = re.s
                         THEN <<i + Len(re.s)>> ELSE <<>>
      [] re.t = "set" -> IF i <= Len(s) /\ Ch(s, i) \in re.cs THEN <<i + 1>> ELSE <<>>
      [] re.t = "any" -> IF i <= Len(s) THEN <<i + 1>> ELSE <<>>
      [] re.t = "wb"  -> IF IsWordAt(s, i - 1) # IsWordAt(s, i) THEN <<i>> ELSE <<>>
      [] re.t = "cat" -> CatEnds(re.rs, s, i)
      [] re.t = "alt" -> AltEnds(re.rs, s, i)
      [] re.t = "rep" -> RepEnds(re.r, s, i, re.lo, re.hi)

CatEnds(rs, s, i) ==
    IF rs = <<>> THEN <<i>>
    ELSE LET first == Ends(Head(rs), s, i)
         IN  Concat([k \in 1..Len(first) |-> CatEnds(Tail(rs), s, first[k])])

AltEnds(rs, s, i) ==
    IF rs = <<>> THEN <<>> ELSE Ends(Head(rs), s, i) \o AltEnds(Tail(rs), s, i)

EachEnd(r, s, i, lo, hi, once) ==
    Concat([k \in 1..Len(once) |->
        IF once[k] > i
        THEN RepEnds(r, s, once[k], Max(lo - 1, 0), IF hi = Inf THEN Inf ELSE hi - 1)
        ELSE <<>>])

\* A quantified character class: the run of class characters at i, then
\* every shorter run down to lo characters, longest first.
RunEnds(cs, s, i, lo, hi) ==
    LET e == RunEnd(cs, s, i, IF hi = Inf THEN Len(s) + 1 ELSE Min(Len(s) + 1, i + hi))
    IN  [k \in 1..(e - (i + lo) + 1) |-> e - k + 1]

RepEnds(r, s, i, lo, hi) ==
    IF r.t = "set" THEN RunEnds(r.cs, s, i, lo, hi)
    ELSE IF hi = 0 THEN <<i>>
    ELSE EachEnd(r, s, i, lo, hi, Ends(r, s, i)) \o (IF lo = 0 THEN <<i>> ELSE <<>>)

NoMatch == [found |-> FALSE, start |-> 0, end |-> 0]

\* The leftmost match of re in s at or after position from (RegExp exec).
RECURSIVE Skip(_, _, _)
\* The first position at or after i where a character of first stands.
Skip(first, s, i) ==
    IF i > Len(s) \/ Ch(s, i) \in first THEN i ELSE Skip(first, s, i + 1)

RECURSIVE Search(_, _, _)
Search(re, s, from) ==
    LET at == IF re.open THEN from ELSE Skip(re.first, s, from)
    IN  IF at > Len(s) + 1 \/ (~re.open /\ at > Len(s)) THEN NoMatch
        ELSE LET es == Ends(re, s, at)
             IN  IF es # <<>> THEN [found |-> TRUE, start |-> at, end |-> Head(es)]
                 ELSE Search(re, s, at + 1)

\* RegExp.prototype.test
Test(re, s) == Search(re, s, 1).found

Matched(s, m) == SubSeq(s, m.start, m.end - 1)

\* String.prototype.match with the g flag: every match, left to right, each
\* search resuming where the last match ended.
RECURSIVE MatchAll(_, _, _)
MatchAll(re, s, from) ==
    LET m == Search(re, s, from)
    IN  IF ~m.found THEN <<>>
        ELSE <<Matched(s, m)>> \o MatchAll(re, s, IF m.end > m.start THEN m.end ELSE m.end + 1)

\* ---------------------------------------------------------------- parseFloat
DigitVal(c) == IndexIn(DIGITS, c) - 1

RECURSIVE DigitRun(_, _)
DigitRun(s, i) == IF i <= Len(s) /\ Ch(s, i) \in Digit THEN DigitRun(s, i + 1) ELSE i

RECURSIVE IntOf(_)
IntOf(ds) == IF ds = "" THEN 0 ELSE IntOf(SubSeq(ds, 1, Len(ds) - 1)) * 10 + DigitVal(Ch(ds, Len(ds)))

\* The first three decimals of a fraction digit string, as mills.
MillsOf(fs) == IntOf(SubSeq(fs \o "000", 1, 3))

\* parseFloat of an unsigned decimal literal: the longest prefix
\* digits [. digits] or . digits; NaN when that prefix has no digit.
\* Decimals past the third are dropped (the resolution of the model).
parseFloat(s) ==
    LET e1 == DigitRun(s, 1)
        hasDot == e1 <= Len(s) /\ Ch(s, e1) = "."
        e2 == IF hasDot THEN DigitRun(s, e1 + 1) ELSE e1
        ip == SubSeq(s, 1, e1 - 1)
        fp == IF hasDot THEN SubSeq(s, e1 + 1, e2 - 1) ELSE ""
    IN  IF ip = "" /\ fp = "" THEN NaN
        ELSE IntOf(ip) * Scale + MillsOf(fp)

isNaN(x) == x = NaN

\* parseInt of a digit string.
parseInt(s) == IF DigitRun(s, 1) = 1 THEN NaN ELSE IntOf(SubSeq(s, 1, DigitRun(s, 1) - 1))

\* ------------------------------------------------------------ fee calculator
SUCCESS_FEE_RATE == 20
QUICK_WIN_THRESHOLD == 50
QUICK_WIN_FEE == 10

\* The program computes in binary floating point. Math.round(x * 100) / 100
\* of a value whose cents end in exactly one half rounds up when the value is
\* held exactly (a multiple of 1/8), and otherwise lands on either side of
\* the half, depending on the representation error of the operands: both
\* neighbouring cents are outcomes. The fee calculator is a set of possible
\* results for that reason.
Dyadic(m) == m % 125 = 0
RoundCentsOutcomes(m, exact) ==
    IF m % 10 = 5 /\ ~exact THEN {m - 5, m + 5} ELSE {RoundCents(m)}

\* Math.round(grossSavings * SUCCESS_FEE_RATE * 100) / 100 (0.20 is not held
\* exactly).
SuccessFeeOutcomes(grossSavings) ==
    LET cents == (grossSavings * SUCCESS_FEE_RATE) \div 1000
    IN  IF (grossSavings * SUCCESS_FEE_RATE) % 1000 = 500
        THEN {cents * 10, (cents + 1) * 10}
        ELSE {RoundDiv(grossSavings * SUCCESS_FEE_RATE, 1000) * 10}

\* Math.round((fee / grossSavings) * 100) / 100, in hundredths.
FeeRateOutcomes(fee, grossSavings) ==
    LET whole == (fee * 100) \div grossSavings
    IN  IF 2 * ((fee * 100) % grossSavings) = grossSavings /\ ~Dyadic(grossSavings)
        THEN {whole, whole + 1}
        ELSE {RoundDiv(fee * 100, grossSavings)}

\* The FeeCalculation results for a fee already computed.
FeeCalculations(grossSavings, feeRates, fee) ==
    {[grossSavings |-> g, feeRate |-> r, fee |-> fee, netSavings |-> n] :
        g \in RoundCentsOutcomes(grossSavings, Dyadic(grossSavings)),
        r \in feeRates,
        n \in RoundCentsOutcomes(grossSavings - fee, Dyadic(grossSavings) /\ Dyadic(fee))}

\* feeRate is kept in hundredths (0.20 is 20).
\* Mutant: the fee is truncated to the cent instead of rounded.
calculateSuccessFee_truncated(grossSavings) ==
    IF grossSavings <= 0
    THEN {[grossSavings |-> 0, feeRate |-> SUCCESS_FEE_RATE, fee |-> 0, netSavings |-> 0]}
    ELSE FeeCalculations(grossSavings, {SUCCESS_FEE_RATE},
                         ((grossSavings * SUCCESS_FEE_RATE) \div 1000) * 10)

calculateSuccessFee(grossSavings) ==
    IF grossSavings <= 0
    THEN {[grossSavings |-> 0, feeRate |-> SUCCESS_FEE_RATE, fee |-> 0, netSavings |-> 0]}
    ELSE UNION {FeeCalculations(grossSavings, {SUCCESS_FEE_RATE}, fee) :
                    fee \in SuccessFeeOutcomes(grossSavings)}

WithFeeType(base, feeType, feeLabel) ==
    [grossSavings |-> base.grossSavings, feeRate |-> base.feeRate, fee |-> base.fee,
     netSavings |-> base.netSavings, feeType |-> feeType, feeLabel |-> feeLabel]

\* Mutant: the quick-win boundary is exclusive (< instead of <=).
calculateSmartFee_exclusive(grossSavings) ==
    IF grossSavings <= 0
    THEN {[grossSavings |-> 0, feeRate |-> 0, fee |-> 0, netSavings |-> 0,
           feeType |-> "quick_win", feeLabel |-> "$10 Quick Win"]}
    ELSE IF grossSavings < Dollars(QUICK_WIN_THRESHOLD)
    THEN {WithFeeType(c, "quick_win", "$10 Quick Win") :
            c \in FeeCalculations(grossSavings,
                                  FeeRateOutcomes(Dollars(QUICK_WIN_FEE), grossSavings),
                                  Dollars(QUICK_WIN_FEE))}
    ELSE {WithFeeType(baseFee, "success_fee", "20% Success Fee") :
            baseFee \in calculateSuccessFee(grossSavings)}

\* The results calculateSmartFee(grossSavings) can return.
calculateSmartFee(grossSavings) ==
    IF grossSavings <= 0
    THEN {[grossSavings |-> 0, feeRate |-> 0, fee |-> 0, netSavings |-> 0,
           feeType |-> "quick_win", feeLabel |-> "$10 Quick Win"]}
    ELSE IF grossSavings <= Dollars(QUICK_WIN_THRESHOLD)
    THEN {WithFeeType(c, "quick_win", "$10 Quick Win") :
            c \in FeeCalculations(grossSavings,
                                  FeeRateOutcomes(Dollars(QUICK_WIN_FEE), grossSavings),
                                  Dollars(QUICK_WIN_FEE))}
    ELSE {WithFeeType(baseFee, "success_fee", "20% Success Fee") :
            baseFee \in calculateSuccessFee(grossSavings)}

\* --------------------------------------------------------- shared results
\* A FlaggedItem; description is not modelled (it is text built for display
\* and feeds no other field).
Item(code, billedAmount, fairPrice, savings, confidence) ==
    [code |-> code, billedAmount |-> billedAmount, fairPrice |-> fairPrice,
     savings |-> savings, confidence |-> confidence]

Conf(points) == points * 100

RECURSIVE SumOf(_, _), SumOf_dropsFirst(_, _)

\* Mutant: the sum leaves out the first element.
SumOf_dropsFirst(items, field) ==
    IF Len(items) <= 1 THEN 0
    ELSE SumOf_dropsFirst(SubSeq(items, 1, Len(items) - 1), field) + items[Len(items)][field]

\* items.reduce((sum, i) => sum + i[field], 0)
SumOf(items, field) ==
    IF items = <<>> THEN 0
    ELSE SumOf(SubSeq(items, 1, Len(items) - 1), field) + items[Len(items)][field]

\* Math.round(a * m / b) for a >= 0, b > 0, without overflowing on a * m.
MulDivRound(a, m, b) == m * (a \div b) + RoundDiv(m * (a % b), b)

\* ---------------------------------------------------------- medical analyzer
FAIR_PRICE_DB ==
    ("99213" :> 110000) @@ ("99214" :> 165000) @@ ("99215" :> 235000) @@ ("99283" :> 290000)
    @@ ("99284" :> 480000) @@ ("99285" :> 710000) @@ ("99291" :> 475000) @@ ("36415" :> 12000)
    @@ ("85025" :> 11000) @@ ("85027" :> 8500) @@ ("80053" :> 14000) @@ ("80048" :> 11000)
    @@ ("80061" :> 18000) @@ ("81001" :> 4500) @@ ("71046" :> 45000) @@ ("71260" :> 340000)
    @@ ("74177" :> 380000) @@ ("70553" :> 520000) @@ ("73721" :> 460000) @@ ("93000" :> 28000)
    @@ ("93306" :> 195000) @@ ("43239" :> 310000) @@ ("45380" :> 425000) @@ ("27447" :> 1800000)
    @@ ("27130" :> 1950000) @@ ("29881" :> 780000) @@ ("59400" :> 2850000) @@ ("59510" :> 3200000)
    @@ ("10060" :> 195000) @@ ("11042" :> 145000) @@ ("90834" :> 105000) @@ ("90837" :> 145000)
    @@ ("90847" :> 125000) @@ ("96372" :> 25000) @@ ("J0585" :> 450000) @@ ("96413" :> 280000)
    @@ ("77386" :> 360000) @@ ("88305" :> 75000) @@ ("97110" :> 42000) @@ ("97140" :> 42000)
    @@ ("97530" :> 45000) @@ ("J7321" :> 280000) @@ ("20610" :> 110000) @@ ("64483" :> 380000)
    @@ ("62323" :> 350000)

\* /\b([0-9]{5}|[A-Z][0-9]{4})\b/
codePattern ==
    Cat(<<WB, Alt(<<Rep(Set(Digit), 5, 5), Cat(<<Set(UpperCh), Rep(Set(Digit), 4, 4)>>)>>), WB>>)

\* /\$?\s*([0-9]{1,3}(?:,?[0-9]{3})*(?:\.[0-9]{2})?)/g
amountPattern ==
    Cat(<<Opt(Lit("$")), Star(Set(Space)),
          Rep(Set(Digit), 1, 3),
          Star(Cat(<<Opt(Lit(",")), Rep(Set(Digit), 3, 3)>>)),
          Opt(Cat(<<Lit("."), Rep(Set(Digit), 2, 2)>>))>>)

\* Group 1 of an amountPattern match: the match without its "$" and blanks.
AmountGroup(m) == RemoveChars(m, {"$"} \cup Space)

MAX_AMOUNT == 1000000

RECURSIVE MaxAmountOf(_, _)
\* The while loop of extractCharges over the matches of one line.
MaxAmountOf(matches, maxAmount) ==
    IF matches = <<>> THEN maxAmount
    ELSE LET amount == parseFloat(RemoveChars(AmountGroup(Head(matches)), {","}))
         IN  MaxAmountOf(Tail(matches),
                         IF amount > maxAmount /\ amount < Dollars(MAX_AMOUNT)
                         THEN amount ELSE maxAmount)

\* One iteration of the for loop of extractCharges: the charge of a line, if any.
ChargeOfLine(line) ==
    LET codeMatch == Search(codePattern, line, 1)
        maxAmount == MaxAmountOf(MatchAll(amountPattern, line, 1), 0)
    IN  IF ~codeMatch.found \/ maxAmount <= 0 THEN <<>>
        ELSE <<[code |-> Matched(line, codeMatch), billedAmount |-> maxAmount]>>

extractCharges(billText) == Concat([k \in 1..Len(billText) |-> ChargeOfLine(billText[k])])

OVERCHARGE_THRESHOLD == 13

\* Mutant: the confidence without its cap of 95.
MedicalConfidence_uncapped(billed, fair) ==
    Conf(50) + MulDivRound((billed - fair) \div 100, 3000, fair \div 100)

\* Math.round(Math.min(95, 50 + (billed / fair - 1) * 30) * 100) / 100; the
\* amounts are whole cents (amountPattern reads two decimals, the table holds
\* two), and the quotient is taken on cents.
MedicalConfidence(billed, fair) ==
    IF 2 * billed >= 5 * fair THEN Conf(95)
    ELSE Min(Conf(95), Conf(50) + MulDivRound((billed - fair) \div 10, 3000, fair \div 10))

RECURSIVE InsertBySavings(_, _)
InsertBySavings(sorted, item) ==
    IF sorted = <<>> THEN <<item>>
    ELSE IF Head(sorted).savings >= item.savings
    THEN <<Head(sorted)>> \o InsertBySavings(Tail(sorted), item)
    ELSE <<item>> \o sorted

RECURSIVE SortBySavingsDesc(_)
\* Array.prototype.sort((a, b) => b.savings - a.savings), a stable sort.
SortBySavingsDesc(items) ==
    IF items = <<>> THEN <<>>
    ELSE InsertBySavings(SortBySavingsDesc(SubSeq(items, 1, Len(items) - 1)), items[Len(items)])

\* Mutant: a charge of exactly 1.3 x the fair price is flagged as well.
OverchargeOf_inclusive(charge) ==
    IF charge.code \notin DOMAIN FAIR_PRICE_DB THEN <<>>
    ELSE LET fair == FAIR_PRICE_DB[charge.code]
         IN  IF charge.billedAmount * 10 >= fair * OVERCHARGE_THRESHOLD
             THEN <<Item(charge.code, charge.billedAmount, fair,
                         RoundCents(charge.billedAmount - fair),
                         MedicalConfidence(charge.billedAmount, fair))>>
             ELSE <<>>

\* One iteration of the loop of detectOvercharges. The amounts read are whole
\* cents, and for every fair price of the table the double fairPrice * 1.3
\* compares with a whole-cent amount as the exact product does.
OverchargeOf(charge) ==
    IF charge.code \notin DOMAIN FAIR_PRICE_DB THEN <<>>
    ELSE LET fair == FAIR_PRICE_DB[charge.code]
         IN  IF charge.billedAmount * 10 > fair * OVERCHARGE_THRESHOLD
             THEN <<Item(charge.code, charge.billedAmount, fair,
                         RoundCents(charge.billedAmount - fair),
                         MedicalConfidence(charge.billedAmount, fair))>>
             ELSE <<>>

detectOvercharges(charges) ==
    SortBySavingsDesc(Concat([k \in 1..Len(charges) |-> OverchargeOf(charges[k])]))

RECURSIVE SelectUnflagged(_, _)
\* charges.filter((c) => !lineItems.some((li) => li.code === c.code))
SelectUnflagged(charges, lineItems) ==
    IF charges = <<>> THEN <<>>
    ELSE (IF \E k \in 1..Len(lineItems) : lineItems[k].code = Head(charges).code
          THEN <<>> ELSE <<Head(charges)>>)
         \o SelectUnflagged(Tail(charges), lineItems)

analyzeBillText(billText) ==
    LET Analysis(charges) ==
        LET lineItems == detectOvercharges(charges)
            totalBilled == SumOf(charges, "billedAmount")
            totalFairPrice == SumOf(lineItems, "fairPrice")
                              + SumOf(SelectUnflagged(charges, lineItems), "billedAmount")
            potentialSavings == SumOf(lineItems, "savings")
        IN  [lineItems |-> lineItems,
             totalBilled |-> RoundCents(totalBilled),
             totalFairPrice |-> RoundCents(totalFairPrice),
             potentialSavings |-> RoundCents(potentialSavings)]
    IN  Analysis(extractCharges(billText))

\* ------------------------------------------------------------ auto analyzer
STATE_AVG_RATES ==
    ("bodily_injury" :> 295000) @@ ("property_damage" :> 155000) @@ ("collision" :> 340000)
    @@ ("comprehensive" :> 135000) @@ ("uninsured" :> 72000) @@ ("medical_payments" :> 45000)
    @@ ("pip" :> 180000) @@ ("rental" :> 28000) @@ ("roadside" :> 18000)

Blanks == Plus(Set(Space))

\* The patterns carry the i flag: they are matched against the lowered line.
COVERAGE_PATTERNS ==
    << [pattern |-> Cat(<<Lit("bodily"), Blanks, Lit("injury")>>), key |-> "bodily_injury"],
       [pattern |-> Cat(<<Lit("property"), Blanks, Lit("damage")>>), key |-> "property_damage"],
       [pattern |-> Lit("collision"), key |-> "collision"],
       [pattern |-> Lit("comprehensive"), key |-> "comprehensive"],
       [pattern |-> Alt(<<Lit("uninsured"), Lit("underinsured")>>), key |-> "uninsured"],
       [pattern |-> Cat(<<Lit("medical"), Blanks, Lit("pay")>>), key |-> "medical_payments"],
       [pattern |-> Alt(<<Cat(<<Lit("personal"), Blanks, Lit("injury")>>), Lit("pip")>>), key |-> "pip"],
       [pattern |-> Cat(<<Lit("rental"), Blanks, Lit("reimburse")>>), key |-> "rental"],
       [pattern |-> Lit("roadside"), key |-> "roadside"] >>

\* /\$[\d,]+\.?\d*/
dollarPattern ==
    Cat(<<Lit("$"), Plus(Set(Digit \cup {","})), Opt(Lit(".")), Star(Set(Digit))>>)

\* parseFloat(m.replace(/[$,]/g, ""))
ParseDollar(m) == parseFloat(RemoveChars(m, {"$", ","}))

RECURSIVE FirstPattern(_, _, _)
\* The index of the first pattern of the list that matches, 0 if none
\* (the for loop that breaks on the first match).
FirstPattern(patterns, low, k) ==
    IF k > Len(patterns) THEN 0
    ELSE IF Test(patterns[k].pattern, low) THEN k
    ELSE FirstPattern(patterns, low, k + 1)

\* The premium of a line on which the k-th coverage pattern was the first
\* to match (k = 0: none did).
PremiumOfMatch(k, line) ==
    LET amounts == MatchAll(dollarPattern, line, 1)
        prev == ParseDollar(amounts[1])
        curr == ParseDollar(amounts[2])
    IN  IF k = 0 \/ Len(amounts) < 2 THEN <<>>
        ELSE IF ~isNaN(prev) /\ ~isNaN(curr) /\ curr > prev
        THEN <<[key |-> COVERAGE_PATTERNS[k].key, previousPremium |-> prev, newPremium |-> curr]>>
        ELSE <<>>

\* One iteration of the outer loop of extractPremiums. The patterns carry no
\* g or y flag, so test() starts at the beginning of the line.
PremiumOfLine(line) == PremiumOfMatch(FirstPattern(COVERAGE_PATTERNS, ToLower(line), 1), line)

extractPremiums(billText) == Concat([k \in 1..Len(billText) |-> PremiumOfLine(billText[k])])

HIKE_THRESHOLD == 115

AvgPremiumOf(p) ==
    IF p.key \in DOMAIN STATE_AVG_RATES /\ STATE_AVG_RATES[p.key] # 0
    THEN STATE_AVG_RATES[p.key] ELSE p.previousPremium

\* The averages whose double product avgPremium * 1.15 is the double just
\* below the exact product (1.15 is held as 1.149999999999999911...):
\* 340 * 1.15 is 390.99999999999994, 45 * 1.15 is 51.74999999999999,
\* 180 * 1.15 is 206.99999999999997 and 28 * 1.15 is 32.199999999999996. For
\* the other averages of the table the product is the double nearest to the
\* exact product.
HikeProductBelow == {340000, 45000, 180000, 28000}

\* p.newPremium > avgPremium * HIKE_THRESHOLD on doubles: a premium read from
\* the text exceeds a product that fell below the exact one as soon as it
\* reaches the exact one.
ExceedsHike(newPremium, avgPremium) ==
    IF avgPremium \in HikeProductBelow
    THEN newPremium * 100 >= avgPremium * HIKE_THRESHOLD
    ELSE newPremium * 100 > avgPremium * HIKE_THRESHOLD

FlaggedPremium(p) ==
    LET avgPremium == AvgPremiumOf(p)
    IN  IF ExceedsHike(p.newPremium, avgPremium)
        THEN <<Item(ToUpper(p.key), p.newPremium, avgPremium,
                    RoundCents(p.newPremium - avgPremium),
                    Conf(Min(95, MulDivRound(p.newPremium - avgPremium, 100, avgPremium))))>>
        ELSE <<>>

RECURSIVE SumAvgPremium(_)
SumAvgPremium(premiums) ==
    IF premiums = <<>> THEN 0 ELSE AvgPremiumOf(Head(premiums)) + SumAvgPremium(Tail(premiums))

\* analyzeAutoInsurance from the extracted premiums on.
analyzeAutoPremiums(premiums) ==
    LET flaggedItems == Concat([k \in 1..Len(premiums) |-> FlaggedPremium(premiums[k])])
        totalBilled == SumOf(premiums, "newPremium")
        totalFair == SumAvgPremium(premiums)
        potentialSavings == SumOf(flaggedItems, "savings")
    IN  [category |-> "auto",
         disputeType |-> "Premium Hike Re-evaluation",
         lineItems |-> flaggedItems,
         totalBilled |-> RoundCents(totalBilled),
         totalFairPrice |-> RoundCents(totalFair),
         potentialSavings |-> RoundCents(potentialSavings)]

analyzeAutoInsurance(billText) == analyzeAutoPremiums(extractPremiums(billText))

\* ------------------------------------------------------------ rent analyzer
QUESTIONABLE_FEES ==
    ("admin_fee" :> 0) @@ ("amenity_fee" :> 50000) @@ ("trash_fee" :> 25000)
    @@ ("digital_fee" :> 0) @@ ("insurance_fee" :> 0) @@ ("parking_fee" :> 100000)
    @@ ("cam_fee" :> 150000) @@ ("cam_reconciliation" :> 0)

FEE_PATTERNS ==
    << [pattern |-> Alt(<<Lit("admin"), Lit("processing")>>), key |-> "admin_fee"],
       [pattern |-> Lit("amenity"), key |-> "amenity_fee"],
       [pattern |-> Alt(<<Lit("trash"), Lit("garbage"), Lit("waste")>>), key |-> "trash_fee"],
       [pattern |-> Alt(<<Lit("digital"), Lit("portal"), Lit("access"), Lit("technology")>>), key |-> "digital_fee"],
       [pattern |-> Cat(<<Lit("insurance"), Blanks, Alt(<<Lit("require"), Lit("fee")>>)>>), key |-> "insurance_fee"],
       [pattern |-> Lit("parking"), key |-> "parking_fee"],
       [pattern |-> Alt(<<Cat(<<Lit("common"), Blanks, Lit("area")>>),
                          Cat(<<Lit("cam"), WB>>),
                          Cat(<<Lit("maintenance"), Blanks, Alt(<<Lit("charge"), Lit("fee")>>)>>)>>),
        key |-> "cam_fee"],
       [pattern |-> Alt(<<Cat(<<Lit("cam"), Blanks, Lit("reconcil")>>),
                          Cat(<<Lit("cam"), Blanks, Lit("adjust")>>),
                          Cat(<<Lit("cam"), Blanks, Lit("true"), Opt(Dot), Lit("up")>>)>>),
        key |-> "cam_reconciliation"] >>

MIN_NOTICE_DAYS == 30
MAX_LATE_FEE_PERCENT == 5
MIN_GRACE_PERIOD_DAYS == 3

\* null
NULL == 0 - 1

\* /base\s+rent/i, /late|fee|charge/i, /late\s+(fee|charge|penalty)/i
baseRentPattern == Cat(<<Lit("base"), Blanks, Lit("rent")>>)
lateFeeChargePattern == Alt(<<Lit("late"), Lit("fee"), Lit("charge")>>)
lateFeePattern == Cat(<<Lit("late"), Blanks, Alt(<<Lit("fee"), Lit("charge"), Lit("penalty")>>)>>)

\* /rent\s+increase|new\s+rent|previous\s+rent|old\s+rent/i
rentIncreasePattern ==
    Alt(<<Cat(<<Lit("rent"), Blanks, Lit("increase")>>), Cat(<<Lit("new"), Blanks, Lit("rent")>>),
          Cat(<<Lit("previous"), Blanks, Lit("rent")>>), Cat(<<Lit("old"), Blanks, Lit("rent")>>)>>)

\* /grace\s+period[:\s]*(\d+)\s*day/i and /grace\s+period[:\s]*none/i
gracePrefix == Cat(<<Lit("grace"), Blanks, Lit("period"), Star(Set({":"} \cup Space))>>)
graceDaysPattern == Cat(<<gracePrefix, Plus(Set(Digit)), Star(Set(Space)), Lit("day")>>)
graceNonePattern == Cat(<<gracePrefix, Lit("none")>>)

\* /(\d+)[\s-]*day\s+notice/i
noticeDaysPattern ==
    Cat(<<Plus(Set(Digit)), Star(Set({"-"} \cup Space)), Lit("day"), Blanks, Lit("notice")>>)

\* /notice[:\s]*none|no\s+prior\s+notice|without\s+notice/i
noticeNonePattern ==
    Alt(<<Cat(<<Lit("notice"), Star(Set({":"} \cup Space)), Lit("none")>>),
          Cat(<<Lit("no"), Blanks, Lit("prior"), Blanks, Lit("notice")>>),
          Cat(<<Lit("without"), Blanks, Lit("notice")>>)>>)

\* The first run of digits of a string: the (\d+) group of the two patterns
\* above, whose other parts match no digit.
RECURSIVE FirstDigits(_)
FirstDigits(s) ==
    IF s = "" THEN ""
    ELSE IF Head(s) \in Digit THEN SubSeq(s, 1, DigitRun(s, 1) - 1)
    ELSE FirstDigits(Tail(s))

NoIncrease == [found |-> FALSE, previous |-> 0, current |-> 0]

\* The rent increase a line sets, or the one held so far.
IncreaseOfLine(line, held) ==
    LET amounts == MatchAll(dollarPattern, line, 1)
        prev == ParseDollar(amounts[1])
        curr == ParseDollar(amounts[2])
    IN  IF Len(amounts) >= 2 /\ ~isNaN(prev) /\ ~isNaN(curr) /\ curr > prev
        THEN [found |-> TRUE, previous |-> prev, current |-> curr]
        ELSE held

FeeOfLine(low, value) ==
    LET k == FirstPattern(FEE_PATTERNS, low, 1)
    IN  IF k = 0 THEN <<>> ELSE <<[key |-> FEE_PATTERNS[k].key, amount |-> value]>>

\* One iteration of the first loop of extractRentCharges.
RentLine(acc, line) ==
    LET amount == Search(dollarPattern, line, 1)
        value == ParseDollar(Matched(line, amount))
        low == ToLower(line)
    IN  IF ~amount.found THEN acc
        ELSE IF isNaN(value) THEN acc
        ELSE IF Test(baseRentPattern, low) /\ ~Test(lateFeeChargePattern, low)
        THEN [acc EXCEPT !.baseRent = value]
        ELSE IF Test(lateFeePattern, low)
        THEN [acc EXCEPT !.lateFee = value]
        ELSE [acc EXCEPT
                !.rentIncrease = IF Test(rentIncreasePattern, low)
                                 THEN IncreaseOfLine(line, acc.rentIncrease)
                                 ELSE acc.rentIncrease,
                !.charges = acc.charges \o FeeOfLine(low, value)]

GraceOfLine(held, line) ==
    LET low == ToLower(line)
        graceMatch == Search(graceDaysPattern, low, 1)
    IN  IF Test(graceNonePattern, low) THEN 0
        ELSE IF graceMatch.found THEN parseInt(FirstDigits(Matched(low, graceMatch)))
        ELSE held

NoticeOfLine(held, line) ==
    LET low == ToLower(line)
        noticeMatch == Search(noticeDaysPattern, low, 1)
    IN  IF Test(noticeNonePattern, low) THEN 0
        ELSE IF noticeMatch.found THEN parseInt(FirstDigits(Matched(low, noticeMatch)))
        ELSE held

RECURSIVE FoldLines(_, _, _)
\* for (const line of lines) acc = step(acc, line)
FoldLines(step(_, _), acc, lines) ==
    IF lines = <<>> THEN acc ELSE FoldLines(step, step(acc, Head(lines)), Tail(lines))

extractRentCharges(billText) ==
    [FoldLines(RentLine,
               [baseRent |-> 0, lateFee |-> 0, charges |-> <<>>, rentIncrease |-> NoIncrease,
                gracePeriod |-> NULL, noticeDays |-> NULL],
               billText)
     EXCEPT !.gracePeriod = FoldLines(GraceOfLine, NULL, billText),
            !.noticeDays = FoldLines(NoticeOfLine, NULL, billText)]

\* Mutant: a fee equal to its ceiling is flagged too.
FeeItem_inclusive(charge) ==
    LET maxReasonable == QUESTIONABLE_FEES[charge.key]
    IN  IF charge.amount >= maxReasonable
        THEN <<Item(ToUpper(charge.key), charge.amount, maxReasonable,
                    RoundCents(charge.amount - maxReasonable),
                    IF maxReasonable = 0 THEN Conf(90) ELSE Conf(75))>>
        ELSE <<>>

FeeItem(charge) ==
    LET maxReasonable == QUESTIONABLE_FEES[charge.key]
    IN  IF charge.amount > maxReasonable
        THEN <<Item(ToUpper(charge.key), charge.amount, maxReasonable,
                    RoundCents(charge.amount - maxReasonable),
                    IF maxReasonable = 0 THEN Conf(90) ELSE Conf(75))>>
        ELSE <<>>

RECURSIVE SumMaxReasonable(_)
SumMaxReasonable(charges) ==
    IF charges = <<>> THEN 0
    ELSE QUESTIONABLE_FEES[Head(charges).key] + SumMaxReasonable(Tail(charges))

\* Math.round(baseRent * MAX_LATE_FEE_PERCENT * 100) / 100
MaxLateOf(baseRent) == RoundDiv(baseRent * MAX_LATE_FEE_PERCENT, 1000) * 10

\* Mutant: the notice period alone is flagged, whether or not a base rent
\* was read.
NoticeItem_anyRent(x) ==
    LET shortNotice == x.noticeDays # NULL /\ x.noticeDays < MIN_NOTICE_DAYS
        increaseAmount == x.rentIncrease.current - x.rentIncrease.previous
    IN  IF x.rentIncrease.found /\ shortNotice
        THEN <<Item("NOTICE_VIOLATION", increaseAmount, 0, increaseAmount, Conf(92))>>
        ELSE IF shortNotice
        THEN <<Item("NOTICE_VIOLATION", 0, 0, 0, Conf(90))>>
        ELSE <<>>

\* Mutant: a notice of exactly 30 days is too short as well.
NoticeItem_inclusive(x) ==
    LET shortNotice == x.noticeDays # NULL /\ x.noticeDays <= MIN_NOTICE_DAYS
        increaseAmount == x.rentIncrease.current - x.rentIncrease.previous
    IN  IF x.rentIncrease.found /\ shortNotice
        THEN <<Item("NOTICE_VIOLATION", increaseAmount, 0, increaseAmount, Conf(92))>>
        ELSE IF shortNotice /\ x.baseRent > 0
        THEN <<Item("NOTICE_VIOLATION", 0, 0, 0, Conf(90))>>
        ELSE <<>>

\* The notice-period block of analyzeRentBill.
NoticeItem(x) ==
    LET shortNotice == x.noticeDays # NULL /\ x.noticeDays < MIN_NOTICE_DAYS
        increaseAmount == x.rentIncrease.current - x.rentIncrease.previous
    IN  IF x.rentIncrease.found /\ shortNotice
        THEN <<Item("NOTICE_VIOLATION", increaseAmount, 0, increaseAmount, Conf(92))>>
        ELSE IF shortNotice /\ x.baseRent > 0
        THEN <<Item("NOTICE_VIOLATION", 0, 0, 0, Conf(90))>>
        ELSE <<>>

analyzeRentBill(billText) ==
    LET Analysis(x) ==
        LET known == SelectSeq(x.charges, LAMBDA c : c.key \in DOMAIN QUESTIONABLE_FEES)
            feeItems == Concat([k \in 1..Len(known) |-> FeeItem(known[k])])
            shortNotice == x.noticeDays # NULL /\ x.noticeDays < MIN_NOTICE_DAYS
            increaseAmount == x.rentIncrease.current - x.rentIncrease.previous
            noticeItems == NoticeItem(x)
            hasLate == x.lateFee > 0 /\ x.baseRent > 0
            maxLate == MaxLateOf(x.baseRent)
            lateItems ==
                IF hasLate /\ x.lateFee > maxLate
                THEN <<Item("LATE_FEE", x.lateFee, maxLate, RoundCents(x.lateFee - maxLate), Conf(88))>>
                ELSE <<>>
            graceItems ==
                IF hasLate /\ x.gracePeriod # NULL /\ x.gracePeriod < MIN_GRACE_PERIOD_DAYS
                THEN <<Item("NO_GRACE", x.lateFee, 0, x.lateFee, Conf(85))>>
                ELSE <<>>
            flaggedItems == feeItems \o noticeItems \o lateItems \o graceItems
            totalBilled == x.baseRent + SumOf(known, "amount")
                           + (IF x.rentIncrease.found /\ shortNotice THEN increaseAmount ELSE 0)
                           + (IF hasLate THEN x.lateFee ELSE 0)
            totalFair == x.baseRent + SumMaxReasonable(known)
                         + (IF hasLate THEN Min(x.lateFee, maxLate) ELSE 0)
            potentialSavings == SumOf(flaggedItems, "savings")
        IN  [category |-> "rent",
             disputeType |-> "Hidden Fees, CAM Overcharges & Notice Violations",
             lineItems |-> flaggedItems,
             totalBilled |-> RoundCents(totalBilled),
             totalFairPrice |-> RoundCents(totalFair),
             potentialSavings |-> RoundCents(potentialSavings)]
    IN  Analysis(extractRentCharges(billText))

\* --------------------------------------------------------- utility analyzer
\* Arithmetic of values that may be NaN (the utility extractor does not
\* filter NaN): NaN propagates through + - * and Math.round, and every
\* comparison with NaN is false.
NAdd(a, b) == IF isNaN(a) \/ isNaN(b) THEN NaN ELSE a + b
NSub(a, b) == IF isNaN(a) \/ isNaN(b) THEN NaN ELSE a - b
NMul(a, b) == IF isNaN(a) \/ isNaN(b) THEN NaN
              ELSE (a \div Scale) * b + ((a % Scale) * b) \div Scale
NRoundCents(a) == IF isNaN(a) THEN NaN ELSE RoundCents(a)
NGt(a, b) == ~isNaN(a) /\ ~isNaN(b) /\ a > b

RECURSIVE NSumOf(_, _)
NSumOf(items, field) ==
    IF items = <<>> THEN 0
    ELSE NAdd(NSumOf(SubSeq(items, 1, Len(items) - 1), field), items[Len(items)][field])

MAX_BACK_BILL_MONTHS == 12

\* /back.?bill|adjustment|correction/i
backBillPattern ==
    Alt(<<Cat(<<Lit("back"), Opt(Dot), Lit("bill")>>), Lit("adjustment"), Lit("correction")>>)

\* /service\s+fee/i
serviceFeePattern == Cat(<<Lit("service"), Blanks, Lit("fee")>>)

\* /(jan|feb|mar|apr|may|jun|jul|aug|sep|oct|nov|dec)\w*\s+\d{4}/i
monthPattern ==
    Cat(<<Alt(<<Lit("jan"), Lit("feb"), Lit("mar"), Lit("apr"), Lit("may"), Lit("jun"),
                Lit("jul"), Lit("aug"), Lit("sep"), Lit("oct"), Lit("nov"), Lit("dec")>>),
          Star(Set(WordCh)), Blanks, Rep(Set(Digit), 4, 4)>>)

\* /[\d,]+\.?\d*/g
numberPattern == Cat(<<Plus(Set(Digit \cup {","})), Opt(Lit(".")), Star(Set(Digit))>>)

\* /estimated|est\b/i and /actual/i
estimatedPattern == Alt(<<Lit("estimated"), Cat(<<Lit("est"), WB>>)>>)
actualPattern == Lit("actual")

\* The amount a back-bill or service-fee line sets, or the one held so far.
AmountOfLine(line, held) ==
    LET amt == Search(dollarPattern, line, 1)
    IN  IF amt.found THEN ParseDollar(Matched(line, amt)) ELSE held

PeriodOfLine(line, low) ==
    LET amounts == MatchAll(numberPattern, line, 1)
        usage == parseFloat(RemoveChars(amounts[1], {","}))
        rate == parseFloat(RemoveChars(amounts[2], {","}))
        amountMatch == Search(dollarPattern, line, 1)
    IN  IF Len(amounts) >= 2
        THEN <<[usage |-> usage,
                rate |-> rate,
                amount |-> IF amountMatch.found THEN ParseDollar(Matched(line, amountMatch))
                           ELSE NMul(usage, rate),
                isEstimated |-> Test(estimatedPattern, low) /\ ~Test(actualPattern, low)]>>
        ELSE <<>>

\* One iteration of the loop of extractBillingPeriods.
UtilityLine(acc, line) ==
    LET low == ToLower(line)
    IN  IF Test(backBillPattern, low)
        THEN [acc EXCEPT !.backBillAmount = AmountOfLine(line, acc.backBillAmount)]
        ELSE IF Test(serviceFeePattern, low)
        THEN [acc EXCEPT !.serviceFee = AmountOfLine(line, acc.serviceFee)]
        ELSE IF ~Test(monthPattern, low) THEN acc
        ELSE [acc EXCEPT !.periods = acc.periods \o PeriodOfLine(line, low)]

extractBillingPeriods(billText) ==
    FoldLines(UtilityLine, [periods |-> <<>>, backBillAmount |-> 0, serviceFee |-> 0], billText)

RECURSIVE GCD(_, _)
GCD(a, b) == IF b = 0 THEN a ELSE GCD(b, a % b)

\* Math.round(t * p / q * 100) / 100 for t, p >= 0 and q > 0, in mills.
RoundCentsOfFraction(t, p, q) ==
    IF isNaN(t) THEN NaN
    ELSE LET g == GCD(p, q)
             pp == p \div g
             qq == 10 * (q \div g)
         IN  10 * (pp * (t \div qq) + RoundDiv((t % qq) * pp, qq))

\* Mutant: the full amount is disputed from 12 estimated periods on.
BackBillItem_inclusive(backBillAmount, estimatedCount) ==
    IF NGt(backBillAmount, 0) /\ estimatedCount >= MAX_BACK_BILL_MONTHS
    THEN <<Item("BACK_BILL", backBillAmount, 0, backBillAmount, Conf(92))>>
    ELSE IF NGt(backBillAmount, 0)
    THEN <<Item("BACK_BILL", backBillAmount, backBillAmount \div 2,
                RoundDiv(backBillAmount, 20) * 10, Conf(65))>>
    ELSE <<>>

\* The back-billing block of analyzeUtilityBill (the amounts read are whole
\* cents, so half of one is a whole number of mills).
BackBillItem(backBillAmount, estimatedCount) ==
    IF NGt(backBillAmount, 0) /\ estimatedCount > MAX_BACK_BILL_MONTHS
    THEN <<Item("BACK_BILL", backBillAmount, 0, backBillAmount, Conf(92))>>
    ELSE IF NGt(backBillAmount, 0)
    THEN <<Item("BACK_BILL", backBillAmount, backBillAmount \div 2,
                RoundDiv(backBillAmount, 20) * 10, Conf(65))>>
    ELSE <<>>

MIN_ESTIMATED_PERIODS == 3

\* avgActualUsage / avgEstUsage as the fraction num / den (1 / 1 when no
\* actual period exists: avgActualUsage falls back to avgEstUsage).
UsageRatio(est, act) ==
    IF Len(act) > 0
    THEN [num |-> NSumOf(act, "usage") * Len(est), den |-> NSumOf(est, "usage") * Len(act)]
    ELSE [num |-> 1, den |-> 1]

RECURSIVE HighMantissa(_, _)
\* Whether v > 0 lies in the upper part of its binade, above 1.4375 x the
\* power of two at or below it (p is a power of two times Scale).
HighMantissa(v, p) ==
    IF v < p THEN HighMantissa(2 * v, p)
    ELSE IF v >= 2 * p THEN HighMantissa(v, 2 * p)
    ELSE v * 16 > p * 23

\* Whether the double product a * 1.15 is below the exact product v = 1.15 a,
\* for a and v held exactly: 1.15 is held as 1.15 - 8.88e-17, and the product
\* rounds to the double below v when that deficit exceeds half the spacing of
\* the doubles at v, which is when v / 2^e > 2^-53 * 1.15 / 8.88e-17 = 1.4375.
ProductBelow(v) == Dyadic(v) /\ HighMantissa(v, Scale)

\* avgEstUsage > avgActualUsage * 1.15, on the fraction above. When the
\* estimated average is exactly 1.15 x the actual one, the double product
\* decides (both averages being held exactly).
OverEstimated(est, act) ==
    LET r == UsageRatio(est, act)
        g == GCD(r.num, r.den)
        sumEst == NSumOf(est, "usage")
        sumAct == NSumOf(act, "usage")
    IN  /\ ~isNaN(sumEst) /\ sumEst > 0
        /\ ~isNaN(sumAct)
        /\ \/ (r.den \div g) * 20 > (r.num \div g) * 23
           \/ /\ (r.den \div g) * 20 = (r.num \div g) * 23
              /\ Len(act) > 0
              /\ sumEst % Len(est) = 0 /\ sumAct % Len(act) = 0
              /\ Dyadic(sumAct \div Len(act))
              /\ ProductBelow(sumEst \div Len(est))

EstOverItem(periods) ==
    LET est == SelectSeq(periods, LAMBDA p : p.isEstimated)
        act == SelectSeq(periods, LAMBDA p : ~p.isEstimated)
        estTotal == NSumOf(est, "amount")
        r == UsageRatio(est, act)
    IN  IF Len(est) > MIN_ESTIMATED_PERIODS /\ OverEstimated(est, act)
        THEN <<Item("EST_OVER", estTotal,
                    RoundCentsOfFraction(estTotal, r.num, r.den),
                    RoundCentsOfFraction(estTotal, r.den - r.num, r.den),
                    Conf(78))>>
        ELSE <<>>

RECURSIVE SeqMin(_), SeqMax(_)
SeqMin(xs) == IF Len(xs) = 1 THEN xs[1] ELSE Min(Head(xs), SeqMin(Tail(xs)))
SeqMax(xs) == IF Len(xs) = 1 THEN xs[1] ELSE Max(Head(xs), SeqMax(Tail(xs)))

\* Mutant: a highest rate of exactly 1.1 x the lowest is flagged as well.
RateHikeItem_inclusive(periods) ==
    LET rates == SelectSeq([k \in 1..Len(periods) |-> periods[k].rate], LAMBDA r : NGt(r, 0))
        uniqueRates == {rates[k] : k \in 1..Len(rates)}
        minRate == SeqMin(rates)
        maxRate == SeqMax(rates)
    IN  IF Cardinality(uniqueRates) > 1 /\ maxRate * 10 >= minRate * 11
        THEN <<Item("RATE_HIKE", maxRate, minRate, RoundCents(maxRate - minRate), Conf(60))>>
        ELSE <<>>

\* The rate block of analyzeUtilityBill. For rates in whole cents the double
\* product minRate * 1.1 orders against maxRate as the exact product does.
RateHikeItem(periods) ==
    LET rates == SelectSeq([k \in 1..Len(periods) |-> periods[k].rate], LAMBDA r : NGt(r, 0))
        uniqueRates == {rates[k] : k \in 1..Len(rates)}
        minRate == SeqMin(rates)
        maxRate == SeqMax(rates)
    IN  IF Cardinality(uniqueRates) > 1 /\ maxRate * 10 > minRate * 11
        THEN <<Item("RATE_HIKE", maxRate, minRate, RoundCents(maxRate - minRate), Conf(60))>>
        ELSE <<>>

analyzeUtilityBill(billText) ==
    LET Analysis(x) ==
        LET estimatedPeriods == SelectSeq(x.periods, LAMBDA p : p.isEstimated)
            totalBilled == NAdd(NAdd(NSumOf(x.periods, "amount"), x.backBillAmount), x.serviceFee)
            flaggedItems == BackBillItem(x.backBillAmount, Len(estimatedPeriods))
                            \o EstOverItem(x.periods)
                            \o RateHikeItem(x.periods)
            potentialSavings == NSumOf(flaggedItems, "savings")
            totalFair == NSub(totalBilled, potentialSavings)
        IN  [category |-> "utility",
             disputeType |-> "Back-Billing & Meter Errors",
             lineItems |-> flaggedItems,
             totalBilled |-> NRoundCents(totalBilled),
             totalFairPrice |-> NRoundCents(totalFair),
             potentialSavings |-> NRoundCents(potentialSavings)]
    IN  Analysis(extractBillingPeriods(billText))

\* ------------------------------------------------------ statement analyzer
\* A CSV text is the sequence of its lines. A StatementRow holds its date
\* (a string), description and amount; the category column is read but never
\* used by the analysis and is left out.

RECURSIVE TrimLeft(_), TrimRight(_)
TrimLeft(s) == IF s # "" /\ Head(s) \in Space THEN TrimLeft(Tail(s)) ELSE s
TrimRight(s) ==
    IF s # "" /\ Ch(s, Len(s)) \in Space THEN TrimRight(SubSeq(s, 1, Len(s) - 1)) ELSE s
\* String.prototype.trim
Trim(s) == TrimLeft(TrimRight(s))

RECURSIVE SplitCSVFrom(_, _, _, _)
SplitCSVFrom(line, i, current, inQuotes) ==
    IF i > Len(line) THEN <<current>>
    ELSE IF Ch(line, i) = "\"" THEN SplitCSVFrom(line, i + 1, current, ~inQuotes)
    ELSE IF Ch(line, i) = "," /\ ~inQuotes
    THEN <<current>> \o SplitCSVFrom(line, i + 1, "", inQuotes)
    ELSE SplitCSVFrom(line, i + 1, current \o Ch(line, i), inQuotes)

\* Fields of a CSV line: commas inside double quotes do not split, and the
\* quotes themselves are dropped.
splitCSVLine(line) == SplitCSVFrom(line, 1, "", FALSE)

RECURSIVE SplitOnComma(_, _, _)
\* String.prototype.split(",")
SplitOnComma(s, i, current) ==
    IF i > Len(s) THEN <<current>>
    ELSE IF Ch(s, i) = "," THEN <<current>> \o SplitOnComma(s, i + 1, "")
    ELSE SplitOnComma(s, i + 1, current \o Ch(s, i))

\* The heuristic column patterns of parseCSV.
datePattern == Lit("date")
descPattern == Alt(<<Lit("desc"), Lit("merchant"), Lit("name"), Lit("memo"), Lit("payee")>>)
amtPattern == Alt(<<Lit("amount"), Lit("debit"), Lit("charge"), Lit("total")>>)

RECURSIVE FindIndex(_, _, _)
\* Array.prototype.findIndex((c) => re.test(c)), 1-based; 0 for -1.
FindIndex(cols, re, k) ==
    IF k > Len(cols) THEN 0
    ELSE IF Test(re, cols[k]) THEN k
    ELSE FindIndex(cols, re, k + 1)

\* Math.abs(parseFloat(s)): an optional sign, then the decimal literal.
AbsParseFloat(s) ==
    IF s # "" /\ Head(s) \in {"-", "+"} THEN parseFloat(Tail(s)) ELSE parseFloat(s)

\* lines.trim(): blank lines at either end of the text are dropped (the
\* text is trimmed before it is split).
RECURSIVE TrimLines(_)
TrimLines(lines) ==
    IF lines = <<>> THEN <<"">>
    ELSE IF Trim(Head(lines)) = "" THEN TrimLines(Tail(lines))
    ELSE IF Trim(lines[Len(lines)]) = "" THEN TrimLines(SubSeq(lines, 1, Len(lines) - 1))
    ELSE IF Len(lines) = 1 THEN <<Trim(Head(lines))>>
    ELSE <<TrimLeft(Head(lines))>> \o SubSeq(lines, 2, Len(lines) - 1)
         \o <<TrimRight(lines[Len(lines)])>>

\* parts[idx]?.replace(/"/g, "").trim(), "" for a column the line lacks.
FieldOf(parts, idx) == IF idx \in 1..Len(parts) THEN Trim(parts[idx]) ELSE ""

\* One iteration of the row loop of parseCSV: the row of a line, if any.
RowOfLine(line, dateIdx, descIdx, amtIdx) ==
    LET Row(parts) ==
            LET Parsed(amount) ==
                    IF isNaN(amount) \/ amount = 0 THEN <<>>
                    ELSE <<[date |-> FieldOf(parts, dateIdx),
                            description |->
                                IF FieldOf(parts, IF descIdx > 0 THEN descIdx ELSE 2) = ""
                                THEN "Unknown"
                                ELSE FieldOf(parts, IF descIdx > 0 THEN descIdx ELSE 2),
                            amount |-> amount]>>
            IN  IF Len(parts) < Max(dateIdx, amtIdx) THEN <<>>
                ELSE Parsed(AbsParseFloat(Trim(RemoveChars(parts[amtIdx], {"$", ","}))))
    IN  Row(splitCSVLine(line))

parseCSV(raw) ==
    LET Rows(lines) ==
            LET Columns(cols) ==
                    LET Indexed(dateIdx, descIdx, amtIdx) ==
                            IF dateIdx = 0 \/ amtIdx = 0 THEN <<>>
                            ELSE Concat([i \in 1..(Len(lines) - 1) |->
                                            RowOfLine(lines[i + 1], dateIdx, descIdx, amtIdx)])
                    IN  Indexed(FindIndex(cols, datePattern, 1),
                                FindIndex(cols, descPattern, 1),
                                FindIndex(cols, amtPattern, 1))
            IN  IF Len(lines) < 2 THEN <<>>
                ELSE Columns([k \in 1..Len(SplitOnComma(ToLower(lines[1]), 1, "")) |->
                                RemoveChars(Trim(SplitOnComma(ToLower(lines[1]), 1, "")[k]), {"\""})])
    IN  Rows(TrimLines(raw))

RECURSIVE StripTrailing(_, _)
\* String.prototype.replace(/[...]+$/g, ""): the trailing run of the class.
StripTrailing(s, cs) ==
    IF s # "" /\ Ch(s, Len(s)) \in cs THEN StripTrailing(SubSeq(s, 1, Len(s) - 1), cs) ELSE s

RECURSIVE ReplaceAll(_, _, _, _)
\* String.prototype.replace(re, with) with the g flag, for an expression
\* that matches at least one character; from is where the search resumes.
ReplaceAll(re, s, with, from) ==
    LET Next(m) ==
            IF ~m.found THEN SubSeq(s, from, Len(s))
            ELSE SubSeq(s, from, m.start - 1) \o with \o ReplaceAll(re, s, with, m.end)
    IN  Next(Search(re, s, from))

\* /\s{2,}/g
wideGapPattern == Rep(Set(Space), 2, Inf)

\* /(pos|ach|debit|credit|payment|autopay|recurring)\s*/gi
paymentWordPattern ==
    Cat(<<Alt(<<Lit("pos"), Lit("ach"), Lit("debit"), Lit("credit"), Lit("payment"),
                Lit("autopay"), Lit("recurring")>>),
          Star(Set(Space))>>)

\* /\s*(llc|inc|corp|ltd)\s*/gi
companyWordPattern ==
    Cat(<<Star(Set(Space)), Alt(<<Lit("llc"), Lit("inc"), Lit("corp"), Lit("ltd")>>),
          Star(Set(Space))>>)

normalizeName(desc) ==
    Trim(ReplaceAll(companyWordPattern,
                    ReplaceAll(paymentWordPattern,
                               ReplaceAll(wideGapPattern,
                                          StripTrailing(ToLower(desc), Digit \cup {"#", "*"}),
                                          " ", 1),
                               "", 1),
                    "", 1))

\* new Date(s).getTime() for a date written YYYY-MM-DD, as a number that
\* grows with the date; NaN for any other string (an invalid date).
DateValue(s) ==
    IF /\ Len(s) = 10
       /\ Ch(s, 5) = "-" /\ Ch(s, 8) = "-"
       /\ CharsOf(SubSeq(s, 1, 4) \o SubSeq(s, 6, 7) \o SubSeq(s, 9, 10)) \subseteq Digit
       /\ IntOf(SubSeq(s, 6, 7)) \in 1..12
       /\ IntOf(SubSeq(s, 9, 10)) \in 1..31
    THEN (IntOf(SubSeq(s, 1, 4)) * 12 + IntOf(SubSeq(s, 6, 7)) - 1) * 31 + IntOf(SubSeq(s, 9, 10))
    ELSE NaN

\* The comparator of the date sort is positive: a sorts after b. A NaN
\* difference counts as 0.
DateAfter(a, b) ==
    ~isNaN(DateValue(a.date)) /\ ~isNaN(DateValue(b.date)) /\ DateValue(a.date) > DateValue(b.date)

RECURSIVE InsertByDate(_, _)
InsertByDate(sorted, e) ==
    IF sorted = <<>> THEN <<e>>
    ELSE IF DateAfter(sorted[Len(sorted)], e)
    THEN InsertByDate(SubSeq(sorted, 1, Len(sorted) - 1), e) \o <<sorted[Len(sorted)]>>
    ELSE sorted \o <<e>>

RECURSIVE SortByDate(_)
\* entries.sort((a, b) => new Date(a.date).getTime() - new Date(b.date).getTime()),
\* a stable sort (the dates of a group are all valid or all invalid).
SortByDate(entries) ==
    IF entries = <<>> THEN <<>>
    ELSE InsertByDate(SortByDate(SubSeq(entries, 1, Len(entries) - 1)), entries[Len(entries)])

RECURSIVE GroupKeys(_, _)
\* The keys of the groups Map, in the order they were first set; a row
\* whose normalized name is empty joins no group.
GroupKeys(keyed, seen) ==
    IF keyed = <<>> THEN <<>>
    ELSE IF Head(keyed).key = "" \/ Head(keyed).key \in seen THEN GroupKeys(Tail(keyed), seen)
    ELSE <<Head(keyed).key>> \o GroupKeys(Tail(keyed), seen \cup {Head(keyed).key})

\* momChange > 10 with momChange = ((latest - previous) / previous) * 100 on
\* doubles, null when previous is not positive. At an increase of exactly
\* 10% the quotient is not held exactly unless both amounts are: the product
\* then lies on either side of 10.
FlaggedOutcomes(latest, previous) ==
    IF previous <= 0 THEN {FALSE}
    ELSE IF 10 * (latest - previous) > previous THEN {TRUE}
    ELSE IF 10 * (latest - previous) < previous THEN {FALSE}
    ELSE IF Dyadic(latest) /\ Dyadic(previous) THEN {FALSE}
    ELSE {TRUE, FALSE}

NoChange == [known |-> FALSE, tenths |-> 0]

\* monthOverMonthChange: Math.round(momChange * 10) / 10, held in tenths of
\* a percent; at a half either neighbour.
ChangeOutcomes(latest, previous) ==
    IF previous <= 0 THEN {NoChange}
    ELSE IF (2000 * (latest - previous)) % (2 * previous) = previous
    THEN {[known |-> TRUE, tenths |-> RoundDiv(1000 * (latest - previous), previous) - d] :
            d \in {0, 1}}
    ELSE {[known |-> TRUE, tenths |-> RoundDiv(1000 * (latest - previous), previous)]}

\* avgAmount: Math.round(avg * 100) / 100 of the mean of the amounts.
AvgOutcomes(entries) ==
    IF SumOf(entries, "amount") % Len(entries) # 0
    THEN {10 * RoundDiv(SumOf(entries, "amount"), 10 * Len(entries))}
    ELSE RoundCentsOutcomes(SumOf(entries, "amount") \div Len(entries),
                            /\ \A k \in 1..Len(entries) : Dyadic(entries[k].amount)
                            /\ Dyadic(SumOf(entries, "amount") \div Len(entries)))

\* The RecurringCharge records a group of two or more entries (sorted by
\* date) can yield.
ChargesOfGroup(key, entries) ==
    {[description |-> entries[Len(entries)].rawDesc,
      normalizedName |-> key,
      occurrences |-> [k \in 1..Len(entries) |->
                          [date |-> entries[k].date, amount |-> entries[k].amount]],
      avgAmount |-> avg,
      latestAmount |-> entries[Len(entries)].amount,
      monthOverMonthChange |-> change,
      flagged |-> flagged] :
        avg \in AvgOutcomes(entries),
        change \in ChangeOutcomes(entries[Len(entries)].amount, entries[Len(entries) - 1].amount),
        flagged \in FlaggedOutcomes(entries[Len(entries)].amount, entries[Len(entries) - 1].amount)}

\* Mutant: the final sort is by latestAmount alone.
RankedAfter_amountOnly(a, b) == b.latestAmount > a.latestAmount

\* The comparator of the final sort is positive: a sorts after b.
RankedAfter(a, b) ==
    IF a.flagged # b.flagged THEN b.flagged ELSE b.latestAmount > a.latestAmount

RECURSIVE InsertByRank(_, _)
InsertByRank(sorted, r) ==
    IF sorted = <<>> THEN <<r>>
    ELSE IF RankedAfter(sorted[Len(sorted)], r)
    THEN InsertByRank(SubSeq(sorted, 1, Len(sorted) - 1), r) \o <<sorted[Len(sorted)]>>
    ELSE sorted \o <<r>>

RECURSIVE SortByRank(_)
\* recurring.sort: flagged first, then by latestAmount descending (stable).
SortByRank(recurring) ==
    IF recurring = <<>> THEN <<>>
    ELSE InsertByRank(SortByRank(SubSeq(recurring, 1, Len(recurring) - 1)),
                      recurring[Len(recurring)])

RECURSIVE Combinations(_)
\* Every sequence that takes one element from each set of the sequence.
Combinations(sets) ==
    IF sets = <<>> THEN {<<>>}
    ELSE {<<h>> \o t : h \in Head(sets), t \in Combinations(Tail(sets))}

\* The lists detectRecurring can return for the rows.
detectRecurring(rows) ==
    LET OfKeyed(keyed) ==
            LET Recurring(groups) ==
                    {SortByRank(c) :
                        c \in Combinations([k \in 1..Len(groups) |->
                                ChargesOfGroup(groups[k][1].key, SortByDate(groups[k]))])}
            IN  Recurring(SelectSeq([k \in 1..Len(GroupKeys(keyed, {})) |->
                                        SelectSeq(keyed, LAMBDA e : e.key = GroupKeys(keyed, {})[k])],
                                    LAMBDA entries : Len(entries) >= 2))
    IN  OfKeyed([k \in 1..Len(rows) |->
                    [key |-> normalizeName(rows[k].description), date |-> rows[k].date,
                     amount |-> rows[k].amount, rawDesc |-> rows[k].description]])

\* Sum of max(0, latestAmount - avgAmount) over the flagged charges.
RECURSIVE SumOverAverage(_)
SumOverAverage(recurring) ==
    IF recurring = <<>> THEN 0
    ELSE (IF Head(recurring).flagged
          THEN Max(0, Head(recurring).latestAmount - Head(recurring).avgAmount) ELSE 0)
         + SumOverAverage(Tail(recurring))

\* The results analyzeStatement can return for a CSV text.
analyzeStatement(csvText) ==
    LET Analysis(rows) ==
            {[totalTransactions |-> Len(rows),
              totalSpent |-> RoundCents(SumOf(rows, "amount")),
              recurring |-> recurring,
              flaggedCount |-> Len(SelectSeq(recurring, LAMBDA r : r.flagged)),
              potentialOvercharges |-> RoundCents(SumOverAverage(recurring))] :
                recurring \in detectRecurring(rows)}
    IN  Analysis(parseCSV(csvText))

\* ------------------------------------------------------------------- router
Categories == {"medical", "auto", "rent", "utility"}

Returned(value) == [threw |-> FALSE, value |-> value]
Thrown(message) == [threw |-> TRUE, error |-> message]

\* Mutant: an unsupported category falls back to the medical analyzer.
analyzeByCategory_default(billText, category) ==
    CASE category = "auto" -> Returned(analyzeAutoInsurance(billText))
      [] category = "rent" -> Returned(analyzeRentBill(billText))
      [] category = "utility" -> Returned(analyzeUtilityBill(billText))
      [] OTHER ->
            LET r == analyzeBillText(billText)
            IN  Returned([category |-> "medical",
                          disputeType |-> "Medical Bill Overcharge",
                          lineItems |-> r.lineItems,
                          totalBilled |-> r.totalBilled,
                          totalFairPrice |-> r.totalFairPrice,
                          potentialSavings |-> r.potentialSavings])

analyzeByCategory(billText, category) ==
    CASE category = "medical" ->
            LET r == analyzeBillText(billText)
            IN  Returned([category |-> "medical",
                          disputeType |-> "Medical Bill Overcharge",
                          lineItems |-> r.lineItems,
                          totalBilled |-> r.totalBilled,
                          totalFairPrice |-> r.totalFairPrice,
                          potentialSavings |-> r.potentialSavings])
      [] category = "auto" -> Returned(analyzeAutoInsurance(billText))
      [] category = "rent" -> Returned(analyzeRentBill(billText))
      [] category = "utility" -> Returned(analyzeUtilityBill(billText))
      [] OTHER -> Thrown("Unknown category")

\* =========================================================================
\* Inputs and specifications
\* =========================================================================
NoResult == [none |-> TRUE]

\* ------------------------------------------------------- module-level state
\* What outlives a call: the reference tables and the lastIndex of the
\* RegExp objects of COVERAGE_PATTERNS (created once, when the module loads).
\* shared holds it; history lists the calls made so far, each with its
\* operation, argument and result.
ModuleState ==
    [tables |-> [FAIR_PRICE_DB |-> FAIR_PRICE_DB,
                 STATE_AVG_RATES |-> STATE_AVG_RATES,
                 QUESTIONABLE_FEES |-> QUESTIONABLE_FEES],
     lastIndex |-> [k \in 1..Len(COVERAGE_PATTERNS) |-> 0]]

\* The flags of every RegExp of COVERAGE_PATTERNS.
COVERAGE_FLAGS == "i"

\* Mutant: every RegExp object keeps its position (as with the g flag).
UsesLastIndex_always(flags) == TRUE

\* A RegExp reads and writes its lastIndex only with the g or the y flag.
UsesLastIndex(flags) == "g" \in CharsOf(flags) \/ "y" \in CharsOf(flags)

\* RegExp.prototype.test on a RegExp object whose lastIndex is given: whether
\* it matches, and the lastIndex it leaves.
TestAt(re, flags, s, lastIndex) ==
    IF ~UsesLastIndex(flags) THEN [found |-> Test(re, s), lastIndex |-> lastIndex]
    ELSE LET After(m) == [found |-> m.found, lastIndex |-> IF m.found THEN m.end - 1 ELSE 0]
         IN  After(Search(re, s, lastIndex + 1))

RECURSIVE FirstPatternAt(_, _, _, _)
\* The loop over COVERAGE_PATTERNS for one line, from the k-th pattern on:
\* the index of the first pattern that matches (0: none) and the lastIndex
\* values the tests leave.
FirstPatternAt(low, k, flags, lastIndex) ==
    IF k > Len(COVERAGE_PATTERNS) THEN [k |-> 0, lastIndex |-> lastIndex]
    ELSE LET Tested(t) ==
                IF t.found THEN [k |-> k, lastIndex |-> [lastIndex EXCEPT ![k] = t.lastIndex]]
                ELSE FirstPatternAt(low, k + 1, flags, [lastIndex EXCEPT ![k] = t.lastIndex])
         IN  Tested(TestAt(COVERAGE_PATTERNS[k].pattern, flags, low, lastIndex[k]))

RECURSIVE ExtractPremiumsAt(_, _, _)
\* extractPremiums on RegExp objects whose lastIndex values are given: the
\* premiums found and the lastIndex values left.
ExtractPremiumsAt(billText, flags, lastIndex) ==
    IF billText = <<>> THEN [premiums |-> <<>>, lastIndex |-> lastIndex]
    ELSE LET Line(first) ==
                LET Rest(rest) ==
                        [premiums |-> PremiumOfMatch(first.k, Head(billText)) \o rest.premiums,
                         lastIndex |-> rest.lastIndex]
                IN  Rest(ExtractPremiumsAt(Tail(billText), flags, first.lastIndex))
         IN  Line(FirstPatternAt(ToLower(Head(billText)), 1, flags, lastIndex))

\* analyzeByCategory in a module whose state is given: the result and the
\* state the call leaves. Only the auto analyzer uses RegExp objects that
\* outlive the call; no analyzer assigns to a table.
AnalyzeIn(state, billText, category) ==
    IF category # "auto" THEN [result |-> analyzeByCategory(billText, category), shared |-> state]
    ELSE LET Extracted(x) ==
                [result |-> Returned(analyzeAutoPremiums(x.premiums)),
                 shared |-> [state EXCEPT !.lastIndex = x.lastIndex]]
         IN  Extracted(ExtractPremiumsAt(billText, COVERAGE_FLAGS, state.lastIndex))

\* --------------------------------------------------- fee calculator: inputs
FeeStep == 1667

FeeInputs ==
    {k * FeeStep : k \in (0 - 3)..MaxFeeK}
    \cup {Dollars(QUICK_WIN_THRESHOLD) + d : d \in (0 - FeeWindow)..FeeWindow}
    \cup {Dollars(1000), 50010, 60025, 75, 125, 4}

InitFee ==
    /\ pc = "ready"
    /\ op = "calculateSmartFee"
    /\ arg \in FeeInputs
    /\ result = NoResult
    /\ shared = ModuleState
    /\ history = <<>>

CallSmartFee ==
    /\ pc = "ready"
    /\ op = "calculateSmartFee"
    /\ \E r \in calculateSmartFee(arg) : result' = r
    /\ pc' = "returned"
    /\ UNCHANGED <<op, arg, shared, history>>

NextFee == CallSmartFee

SpecFee == InitFee /\ [][NextFee]_vars

FeeReturned == pc = "returned" /\ op = "calculateSmartFee"

\* ------------------------------------------------------ writing bill lines
RECURSIVE IntToStr(_)
IntToStr(n) == IF n < 10 THEN Ch(DIGITS, n + 1) ELSE IntToStr(n \div 10) \o Ch(DIGITS, (n % 10) + 1)

RECURSIVE Grouped(_)
\* 1234567 as "1,234,567"
Grouped(n) == IF n < 1000 THEN IntToStr(n) ELSE Grouped(n \div 1000) \o "," \o SubSeq(IntToStr(1000 + (n % 1000)), 2, 4)

\* An amount of mills as statements print it: "$2,450.00"; a mill digit
\* that is not zero is printed too ("$35.004").
Decimals(m) ==
    IF m % 10 = 0 THEN SubSeq(IntToStr(100 + (m % Scale) \div 10), 2, 3)
    ELSE SubSeq(IntToStr(1000 + (m % Scale)), 2, 4)
USD(m) == "$" \o Grouped(m \div Scale) \o "." \o Decimals(m)

Gap == "   "

\* ------------------------------------------------------------ medical inputs
\* A statement line with one procedure code and one $-prefixed amount.
MedicalChargeLine(code, amount) == code \o Gap \o "Service rendered" \o Gap \o USD(amount)

MedChargeInputs ==
    LET MedCodes == {"99285", "36415", "74177", "93000", "85027", "J0585", "12345"}
        MedAmounts == {Dollars(85), Dollars(2450), Dollars(3200), Dollars(923), 923010, 15600,
                       15610, Dollars(364), 36390, Dollars(1), 585000, 586000}
    IN  {[category |-> "medical",
          text |-> <<MedicalChargeLine(c, a)>>,
          about |-> [kind |-> "charge", code |-> c, amount |-> a]] :
            c \in MedCodes, a \in MedAmounts}

RECURSIVE SeqsUpTo(_, _)
\* Every sequence of 1..n elements of S.
SeqsUpTo(S, n) ==
    IF n = 0 THEN {}
    ELSE {<<x>> : x \in S} \cup {<<x>> \o t : x \in S, t \in SeqsUpTo(S, n - 1)}

MedTextInputs ==
    LET MedOtherLines ==
            { "99285  Emergency dept visit (life-threatening)   $2,450.00",
              "71046  Chest X-ray, 2 views   $380.00",
              "74177  CT abdomen and pelvis   $3200.00",
              "80053  Comprehensive metabolic panel   235.00",
              "93000  Electrocardiogram   $30.00",
              "93000  Electrocardiogram (repeat)   $275.00",
              "99999  Unlisted service   $500.00",
              "J0585  Botulinum toxin type A injection   $500.00",
              "J0585  Botulinum toxin type A injection   $900.00",
              "Subtotal:   $7,407.00" }
    IN  {[category |-> "medical", text |-> t, about |-> [kind |-> "lines"]] :
            t \in SeqsUpTo(MedOtherLines, MaxMedLines)}

\* --------------------------------------------------------------- auto inputs
AutoHeader == "NATIONAL SHIELD AUTO INSURANCE"

\* One coverage line with its previous and its new premium.
AutoLineInputs ==
    LET AutoLabels ==
            {"Bodily Injury", "Property Damage", "Collision", "Comprehensive",
             "Uninsured Motorist", "Medical Payments", "PIP", "Rental Reimbursement",
             "Roadside Assistance", "Towing and Labor"}
        AutoPremiumPairs ==
            { <<Dollars(280), Dollars(412)>>, <<Dollars(145), Dollars(198)>>,
              <<Dollars(310), Dollars(300)>>, <<Dollars(40), 51750>>, <<Dollars(40), 51760>>,
              <<Dollars(20), Dollars(20)>>, <<Dollars(15), 20710>>,
              <<Dollars(310), Dollars(391)>> }
    IN  {[category |-> "auto",
          text |-> <<AutoHeader,
                     l \o Gap \o USD(pr[1]) \o "/6mo" \o Gap \o USD(pr[2]) \o "/6mo">>,
          about |-> [kind |-> "coverage", label |-> l, prev |-> pr[1], new |-> pr[2]]] :
            l \in AutoLabels, pr \in AutoPremiumPairs}

AutoTextInputs ==
    LET AutoOtherTexts ==
            { <<AutoHeader,
                "Bodily Injury         $280.00/6mo        $412.00/6mo",
                "Property Damage       $145.00/6mo        $198.00/6mo",
                "Medical Payments      $40.00/6mo         $58.00/6mo",
                "New 6-Month Premium:                      $1,436.00">>,
              <<AutoHeader, "Collision deductible $500.00">>,
              <<"Underinsured motorist $65.00 $94.00", "Roadside $18.00 $19.00">> }
    IN  {[category |-> "auto", text |-> t, about |-> [kind |-> "lines"]] : t \in AutoOtherTexts}

\* --------------------------------------------------------------- rent inputs
RentHeader == "GREENFIELD PROPERTY MANAGEMENT"

\* A component of a text that may be absent.
Maybe(S) == {<<>>} \cup {<<x>> : x \in S}

\* One fee line, with or without a base-rent line before it.
RentFeeInputs ==
    LET RentFeeLabels ==
            {"Admin/Processing Fee", "Amenity Fee", "Trash Removal Fee", "Digital Access Fee",
             "Insurance Requirement Fee", "Parking Fee (1 spot)", "Common Area Maintenance",
             "CAM reconciliation", "CAM Adjustment", "CAM true-up", "Pet Rent (1 cat)",
             "Water/Sewer Charge"}
        RentFeeAmounts ==
            {Dollars(35), 35004, Dollars(20), Dollars(25), 25010, Dollars(50), Dollars(100),
             Dollars(150), 150010, Dollars(200)}
    IN  {[category |-> "rent",
          text |-> <<RentHeader>> \o b \o <<l \o Gap \o USD(a)>>,
          about |-> [kind |-> "fee", label |-> l, amount |-> a]] :
            b \in Maybe({"Base Rent     $1,850.00"}),
            l \in RentFeeLabels, a \in RentFeeAmounts}

\* Base rent, late fee, grace period, notice and rent increase lines, each
\* present or not.
RentRuleInputs ==
    LET BaseRentLines == {"Base Rent     $1,850.00", "Base rent: $1,000.00"}
        LateFeeLines == {"Late Fee (paid 2 days past due) $185.00", "Late charge $40.00",
                         "Late penalty: $50.01"}
        GraceLines == {"Grace Period: None stated.", "Grace period: 5 days", "Grace period 2 days"}
        NoticeLines == {"Notice: none given", "15-day notice of change",
                        "30-day notice posted", "A 60 day notice was mailed"}
        IncreaseLines == {"Previous rent $1,700.00 new rent $1,850.00"}
    IN  {[category |-> "rent",
          text |-> <<RentHeader>> \o b \o f \o l \o g \o n \o i,
          about |-> [kind |-> "rules"]] :
            b \in Maybe(BaseRentLines),
            f \in Maybe({"Admin/Processing Fee   $35.00"}),
            l \in Maybe(LateFeeLines), g \in Maybe(GraceLines),
            n \in Maybe(NoticeLines), i \in Maybe(IncreaseLines)}

\* ------------------------------------------------------------ utility inputs
UtilityHeader == "METRO GAS & HEATING CO."

RECURSIVE Repeat(_, _)
Repeat(line, n) == IF n = 0 THEN <<>> ELSE <<line>> \o Repeat(line, n - 1)

\* n billing-period lines: the first line of the pair once, then the second.
PeriodLines(pair, n) == IF n = 0 THEN <<>> ELSE <<pair[1]>> \o Repeat(pair[2], n - 1)

DemoEstimated == "Jan 2023 (estimated)  145  $1.45/th  $210.25"
DemoActual == "Jan 2024 (actual)  132  $1.62/th  $213.84"
DemoBackBill == "Back-Bill Adjustment:   $1,334.00"

\* Up to MaxEstLines estimated periods, for the 12-month back-billing limit.
UtilityBackBillInputs ==
    LET BackBillLines == {DemoBackBill, "Correction: $100.25", "Backbill $,", "Adjustment pending"}
        ServiceFeeLines == {"Service Fee:   $18.50/mo"}
    IN  {[category |-> "utility",
          text |-> <<UtilityHeader>> \o Repeat(DemoEstimated, ne) \o a \o b \o f,
          about |-> [kind |-> "backbill", estimated |-> ne]] :
            ne \in 0..MaxEstLines, a \in Maybe({DemoActual}),
            b \in Maybe(BackBillLines), f \in Maybe(ServiceFeeLines)}

MaxShortEst == 5

\* Estimated and actual periods with their usage, rate and amount.
UtilityUsageInputs ==
    LET EstimatedLines ==
            { <<DemoEstimated, DemoEstimated>>,
              <<"200 1.50 est Feb 2023 $25.25", "200 1.50 est Mar 2023 $25.00">>,
              <<"120 1.50 Estimated Apr 2023", "120 1.50 Estimated May 2023">>,
              <<"115 1.50 est Feb 2023 $25.00", "115 1.50 est Mar 2023 $25.00">>,
              <<"Jan 2023 est , 5", "200 1.50 est Mar 2023 $25.00">> }
        ActualLines ==
            { <<DemoActual, DemoActual>>,
              <<"100 1.50 actual Jun 2023 $20.00", "100 1.50 actual Jul 2023 $20.00">>,
              <<"180 1.80 actual Jun 2023 $32.40", "180 1.50 actual Jul 2023 $27.00">>,
              <<"100 1.65 actual Jun 2023 $16.50", "100 1.50 actual Jul 2023 $15.00">> }
    IN  {[category |-> "utility",
          text |-> <<UtilityHeader>> \o PeriodLines(e, ne) \o PeriodLines(a, na) \o b,
          about |-> [kind |-> "usage", estimated |-> ne, actual |-> na]] :
            e \in EstimatedLines, ne \in 0..MaxShortEst,
            a \in ActualLines, na \in 0..MaxActLines,
            b \in Maybe({DemoBackBill})}

\* ------------------------------------------------------------- router inputs
UnknownCategories == {"unknown", "dental", ""}

\* Texts in which no extractor finds anything, for every category.
PlainInputs ==
    LET PlainTexts ==
            { <<"">>,
              <<"Thank you for your business">>,
              <<"Statement of account", "Customer: Jane Smith", "">>,
              <<"Total due upon receipt", "Questions? Call us.">> }
    IN  {[category |-> c, text |-> t, about |-> [kind |-> "plain"]] :
            c \in Categories \cup UnknownCategories, t \in PlainTexts}

\* A well-formed medical line under a category that is not supported.
UnknownInputs ==
    {[category |-> c, text |-> <<MedicalChargeLine("99285", Dollars(2450))>>,
      about |-> [kind |-> "unknown"]] : c \in UnknownCategories}

AnalyzeInputs ==
    MedChargeInputs \cup MedTextInputs \cup AutoLineInputs \cup AutoTextInputs
    \cup RentFeeInputs \cup RentRuleInputs
    \cup UtilityBackBillInputs \cup UtilityUsageInputs
    \cup PlainInputs \cup UnknownInputs

Init ==
    /\ pc = "ready"
    /\ op = "analyzeByCategory"
    /\ arg \in AnalyzeInputs
    /\ result = NoResult
    /\ shared = ModuleState
    /\ history = <<>>

\* analyzeByCategory(arg.text, arg.category) returns or throws.
CallAnalyzeByCategory ==
    /\ pc = "ready"
    /\ op = "analyzeByCategory"
    /\ result' = analyzeByCategory(arg.text, arg.category)
    /\ pc' = IF result'.threw THEN "threw" ELSE "returned"
    /\ UNCHANGED <<op, arg, shared, history>>

Next == CallAnalyzeByCategory

Spec == Init /\ [][Next]_vars

Called == pc \in {"returned", "threw"} /\ op = "analyzeByCategory"
AnalysisReturned == pc = "returned" /\ op = "analyzeByCategory"

\* The lineItems of the returned AnalysisResult (none while nothing is returned).
LineItems == IF AnalysisReturned THEN result.value.lineItems ELSE <<>>
\* The lineItems with the given code.
ItemsWithCode(code) == {k \in 1..Len(LineItems) : LineItems[k].code = code}

\* --------------------------------------------------------- statement inputs
\* One CSV line: date, description, amount.
StatementLine(date, desc, amount) ==
    date \o "," \o desc \o "," \o IntToStr(amount \div Scale) \o "." \o Decimals(amount)

\* A statement with a merchant charged twice (the earlier and the later
\* amount, listed in either order), optionally a third, older charge, a
\* second merchant, rows whose normalized name is empty, and a merchant
\* charged once.
StatementInputs ==
    LET AmountPairs ==
            { <<10000, 11000>>, <<10000, 11010>>, <<10000, 10990>>, <<1000, 1100>>,
              <<15990, 17990>>, <<15990, 15990>>, <<20000, 18000>> }
        SecondMerchant ==
            { <<>>,
              <<StatementLine("2024-01-09", "Gym LLC", 30000), StatementLine("2024-02-09", "GYM", 30000)>>,
              <<StatementLine("n/a", "Gym LLC", 30000), StatementLine("n/a", "GYM", 45000)>>,
              <<StatementLine("2024-01-09", "Gym LLC", 30000), StatementLine("2024-02-09", "GYM", 32000)>>,
              <<StatementLine("2024-01-09", "Gym LLC", 30000)>> }
        NoName ==
            { <<>>,
              <<StatementLine("2024-01-20", "Payment", 5000), StatementLine("2024-02-20", "Payment", 9000)>> }
        Older == { <<>>, <<StatementLine("2023-12-05", "Netflix", 50000)>> }
        Lines(pair, reversed) ==
            IF reversed
            THEN <<StatementLine("2024-02-05", "NETFLIX 0042", pair[2]),
                   StatementLine("2024-01-05", "Netflix", pair[1])>>
            ELSE <<StatementLine("2024-01-05", "Netflix", pair[1]),
                   StatementLine("2024-02-05", "NETFLIX 0042", pair[2])>>
    IN  {[text |-> <<"Date,Description,Amount">> \o g \o Lines(pair, reversed) \o o \o n
                   \o <<StatementLine("2024-03-01", "Corner Cafe", 4500)>>,
          about |-> [kind |-> "statement", previous |-> pair[1], latest |-> pair[2],
                     reversed |-> reversed, older |-> o # <<>>]] :
            pair \in AmountPairs, reversed \in BOOLEAN, o \in Older,
            g \in SecondMerchant, n \in NoName}

InitStatement ==
    /\ pc = "ready"
    /\ op = "analyzeStatement"
    /\ arg \in StatementInputs
    /\ result = NoResult
    /\ shared = ModuleState
    /\ history = <<>>

CallAnalyzeStatement ==
    /\ pc = "ready"
    /\ op = "analyzeStatement"
    /\ \E r \in analyzeStatement(arg.text) : result' = r
    /\ pc' = "returned"
    /\ UNCHANGED <<op, arg, shared, history>>

NextStatement == CallAnalyzeStatement

SpecStatement == InitStatement /\ [][NextStatement]_vars

StatementReturned == pc = "returned" /\ op = "analyzeStatement"

\* ------------------------------------------------------- sequences of calls
\* Calls run to completion one after another (the functions are synchronous):
\* a sequence of up to MaxCalls calls, each of any of the three operations.
MaxCalls == 3

\* The fee arguments are whole cents, as the analyzers return savings, and
\* the statement has no increase of exactly 10%: the result of each is then
\* a single value.
CallInputs ==
    {[op |-> "analyzeByCategory",
      arg |-> [category |-> "auto",
               text |-> <<AutoHeader, "Collision             $310.00/6mo        $485.00/6mo">>]],
     [op |-> "analyzeByCategory",
      arg |-> [category |-> "auto",
               text |-> <<"Bodily Injury         $280.00/6mo        $412.00/6mo",
                          "Collision             $310.00/6mo        $485.00/6mo",
                          "Comprehensive collision waiver   $125.00   $189.00">>]],
     [op |-> "analyzeByCategory",
      arg |-> [category |-> "medical", text |-> <<MedicalChargeLine("99285", Dollars(2450))>>]],
     [op |-> "calculateSmartFee", arg |-> Dollars(175)],
     [op |-> "calculateSmartFee", arg |-> Dollars(50)],
     [op |-> "analyzeStatement",
      arg |-> [text |-> <<"Date,Description,Amount",
                          StatementLine("2024-01-05", "Netflix", 15990),
                          StatementLine("2024-02-05", "NETFLIX 0042", 17990)>>]]}

InitCalls ==
    /\ pc = "ready"
    /\ op = "none"
    /\ arg = NoResult
    /\ result = NoResult
    /\ shared = ModuleState
    /\ history = <<>>

\* A call that has returned joins the history.
Completed(call, value) ==
    /\ pc' = "returned"
    /\ op' = call.op
    /\ arg' = call.arg
    /\ result' = value
    /\ history' = Append(history, [op |-> call.op, arg |-> call.arg, result |-> value])

CallsAnalyzeByCategory ==
    /\ Len(history) < MaxCalls
    /\ \E call \in CallInputs :
        /\ call.op = "analyzeByCategory"
        /\ Completed(call, AnalyzeIn(shared, call.arg.text, call.arg.category).result)
        /\ shared' = AnalyzeIn(shared, call.arg.text, call.arg.category).shared

CallsSmartFee ==
    /\ Len(history) < MaxCalls
    /\ \E call \in CallInputs :
        /\ call.op = "calculateSmartFee"
        /\ \E r \in calculateSmartFee(call.arg) : Completed(call, r)
        /\ UNCHANGED shared

CallsAnalyzeStatement ==
    /\ Len(history) < MaxCalls
    /\ \E call \in CallInputs :
        /\ call.op = "analyzeStatement"
        /\ \E r \in analyzeStatement(call.arg.text) : Completed(call, r)
        /\ UNCHANGED shared

NextCalls == CallsAnalyzeByCategory \/ CallsSmartFee \/ CallsAnalyzeStatement

SpecCalls == InitCalls /\ [][NextCalls]_vars

\* ======================================================================
\* Payments, negotiations and the user's ledger (Supabase tables)
\* ======================================================================
\* Server requests run concurrently; a request gives up control at every
\* awaited database operation, so each awaited operation is one step.  In this
\* specification pc, op, arg and result are functions of the request slot,
\* shared is the database and history counts what the requests have done.

MaxProcs == 2
MaxRequests == 3
MaxSessions == 2
MaxNegotiations == 1

Procs == 1 .. MaxProcs

\* the one profile row created at signup, and an id without a row
Users == {"u1"}
UserIds == {"u1", "u0"}

CheckoutAmounts == {10000, 24000}
LedgerUpdates == {[savings |-> 40000, fee |-> 10000], [savings |-> 120000, fee |-> 24000]}
NegotiationSavings == {100000}
CardNumbers == {"4242 4242 4242 4242", "5555-5555-5555-0000"}

\* numeric(12,2) column: the value is stored with two decimals
Numeric(x) == RoundCents(x)

\* (parseFloat(column) || 0)
ParseFloatOr0(x) == IF isNaN(x) THEN 0 ELSE x

NewUserRow == [total_saved |-> 0, fees_paid |-> 0, fees_owed |-> 0]

EmptyDatabase ==
    [users |-> [u \in Users |-> NewUserRow],
     payments |-> <<>>,
     negotiations_v2 |-> <<>>,
     premium_content |-> <<>>]

NoHistory ==
    [requests |-> 0,
     last |-> 0,
     credits |-> [s \in 1 .. MaxSessions |-> 0],
     ledgerUpdates |-> 0,
     saved |-> 0,
     owed |-> 0,
     unlockCredits |-> 0]

detectCardBrand(cardNumber) ==
    LET cleaned == RemoveChars(cardNumber, Space \cup {"-"})
        first == IF cleaned = "" THEN "" ELSE Ch(cleaned, 1)
    IN  IF first = "4" THEN "Visa"
        ELSE IF first \in {"5", "2"} THEN "Mastercard"
        ELSE IF first = "3" THEN "Amex"
        ELSE IF first = "6" THEN "Discover"
        ELSE "Unknown"

LastFour(cleaned) == SubSeq(cleaned, Max(1, Len(cleaned) - 3), Len(cleaned))

\* simulated mode: a card ending in 0000 is declined, any other succeeds
FinalStatus(cardNumber) ==
    LET cleaned == RemoveChars(cardNumber, Space \cup {"-"})
    IN  IF Len(cleaned) >= 4 /\ LastFour(cleaned) = "0000" THEN "failed" ELSE "completed"

\* ---- steps shared by the handlers ----

Idle(p) == pc[p] = "idle"

CanStart(p) == Idle(p) /\ history.requests < MaxRequests

\* the request counter, and the slot that took the latest request
Started(p) == [history EXCEPT !.requests = @ + 1, !.last = p]

\* the request in slot p moves on to its next awaited operation
Goto(p, label, locals) ==
    /\ pc' = [pc EXCEPT ![p] = label]
    /\ result' = [result EXCEPT ![p] = locals]

\* the request in slot p returns a value
Return(p, value) ==
    /\ pc' = [pc EXCEPT ![p] = "idle"]
    /\ result' = [result EXCEPT ![p] = [returned |-> value]]

Begin(p, name, args) ==
    /\ op' = [op EXCEPT ![p] = name]
    /\ arg' = [arg EXCEPT ![p] = args]

\* ---- PaymentService.createCheckoutSession ----
\* The session id is fresh (timestamp and random part); the row number stands
\* for it.  payments.user_id references users: an unknown user is an insert error.
createCheckoutSession(p) ==
    /\ CanStart(p)
    /\ Len(shared.payments) < MaxSessions
    /\ \E userId \in UserIds, amount \in CheckoutAmounts :
        LET sessionId == Len(shared.payments) + 1
            row == [session_id |-> sessionId, user_id |-> userId, amount |-> Numeric(amount),
                    status |-> "pending", card_last_four |-> "", card_brand |-> "",
                    error_message |-> ""]
        IN  /\ Begin(p, "createCheckoutSession", [userId |-> userId, amount |-> amount])
            /\ IF userId \in Users
               THEN /\ shared' = [shared EXCEPT !.payments = Append(@, row)]
                    /\ Return(p, [session |-> [sessionId |-> sessionId, userId |-> userId,
                                               amount |-> amount, status |-> "pending"]])
               ELSE /\ UNCHANGED shared
                    /\ Return(p, [session |-> NULL, error |-> "insert failed"])
    /\ history' = Started(p)

\* ---- PaymentService.processPayment ----
\* select the session, then check that it is pending
processPayment_fetch(p) ==
    /\ CanStart(p)
    /\ \E sessionId \in 1 .. MaxSessions, cardNumber \in CardNumbers :
        /\ Begin(p, "processPayment", [sessionId |-> sessionId, cardNumber |-> cardNumber])
        /\ IF sessionId > Len(shared.payments)
           THEN Return(p, [success |-> FALSE, sessionId |-> sessionId, status |-> "failed",
                           error |-> "Payment session not found"])
           ELSE LET payment == shared.payments[sessionId]
                IN  IF payment.status # "pending"
                    THEN Return(p, [success |-> FALSE, sessionId |-> sessionId,
                                    status |-> payment.status, error |-> "Payment already"])
                    ELSE Goto(p, "processing", [payment |-> payment])
    /\ history' = Started(p)
    /\ UNCHANGED shared

\* update ... set status = 'processing' where session_id = sessionId
processPayment_processing(p) ==
    /\ pc[p] = "processing"
    /\ shared' = [shared EXCEPT !.payments[arg[p].sessionId].status = "processing"]
    /\ Goto(p, "final", result[p])
    /\ UNCHANGED <<op, arg, history>>

PaymentResult(p) ==
    LET cleaned == RemoveChars(arg[p].cardNumber, Space \cup {"-"})
        finalStatus == FinalStatus(arg[p].cardNumber)
    IN  [success |-> finalStatus = "completed", sessionId |-> arg[p].sessionId,
         status |-> finalStatus, cardBrand |-> detectCardBrand(cleaned),
         cardLastFour |-> LastFour(cleaned),
         error |-> IF finalStatus = "failed" THEN "Card declined (test decline card)" ELSE ""]

\* update ... set status = finalStatus, card data where session_id = sessionId
processPayment_final(p) ==
    /\ pc[p] = "final"
    /\ LET r == PaymentResult(p)
       IN  /\ shared' = [shared EXCEPT !.payments[arg[p].sessionId] =
                            [@ EXCEPT !.status = r.status, !.card_last_four = r.cardLastFour,
                                      !.card_brand = r.cardBrand, !.error_message = r.error]]
           /\ IF r.status = "completed"
              THEN Goto(p, "markFeePaid", result[p])
              ELSE Return(p, r)
    /\ UNCHANGED <<op, arg, history>>

\* ---- markFeePaid(payment.user_id, payment.amount), awaited by processPayment ----
markFeePaid_fetch(p) ==
    /\ pc[p] = "markFeePaid"
    /\ LET userId == result[p].payment.user_id
       IN  IF userId \in DOMAIN shared.users
           THEN Goto(p, "markFeePaid_update",
                     [payment |-> result[p].payment, user |-> shared.users[userId]])
           ELSE Return(p, PaymentResult(p))
    /\ UNCHANGED <<op, arg, shared, history>>

markFeePaid_update(p) ==
    /\ pc[p] = "markFeePaid_update"
    /\ LET userId == result[p].payment.user_id
           amount == result[p].payment.amount
           user == result[p].user
       IN  shared' = [shared EXCEPT !.users[userId] =
                        [@ EXCEPT !.fees_paid = Numeric(ParseFloatOr0(user.fees_paid) + amount),
                                  !.fees_owed = Numeric(Max(0, ParseFloatOr0(user.fees_owed) - amount))]]
    /\ history' = [history EXCEPT !.credits[arg[p].sessionId] = @ + 1]
    /\ Return(p, PaymentResult(p))
    /\ UNCHANGED <<op, arg>>

\* ---- updateUserLedger ----
updateUserLedger_fetch(p) ==
    /\ CanStart(p)
    /\ \E userId \in UserIds, u \in LedgerUpdates :
        /\ Begin(p, "updateUserLedger", [userId |-> userId, savings |-> u.savings, fee |-> u.fee])
        /\ IF userId \in DOMAIN shared.users
           THEN Goto(p, "updateUserLedger_update", [user |-> shared.users[userId]])
           ELSE Return(p, [success |-> FALSE, error |-> "User not found"])
    /\ history' = Started(p)
    /\ UNCHANGED shared

updateUserLedger_update(p) ==
    /\ pc[p] = "updateUserLedger_update"
    /\ LET user == result[p].user
       IN  shared' = [shared EXCEPT !.users[arg[p].userId] =
                        [@ EXCEPT !.total_saved = Numeric(ParseFloatOr0(user.total_saved) + arg[p].savings),
                                  !.fees_owed = Numeric(ParseFloatOr0(user.fees_owed) + arg[p].fee)]]
    /\ history' = [history EXCEPT !.ledgerUpdates = @ + 1,
                                  !.saved = @ + arg[p].savings,
                                  !.owed = @ + arg[p].fee]
    /\ Return(p, [success |-> TRUE])
    /\ UNCHANGED <<op, arg>>

\* ---- createNegotiation ----
createNegotiation_insert(p) ==
    /\ CanStart(p)
    /\ Len(shared.negotiations_v2) < MaxNegotiations
    /\ \E potentialSavings \in NegotiationSavings :
        LET id == Len(shared.negotiations_v2) + 1
            successFee == RoundCents((potentialSavings * SUCCESS_FEE_RATE) \div 100)
            negotiation == [id |-> id, user_id |-> "u1",
                            potential_savings |-> Numeric(potentialSavings),
                            success_fee |-> Numeric(successFee),
                            is_unlocked |-> FALSE, status |-> "analyzed"]
        IN  /\ Begin(p, "createNegotiation", [userId |-> "u1", potentialSavings |-> potentialSavings])
            /\ shared' = [shared EXCEPT !.negotiations_v2 = Append(@, negotiation)]
            /\ Goto(p, "premium_content", [negotiation |-> negotiation])
    /\ history' = Started(p)

createNegotiation_content(p) ==
    /\ pc[p] = "premium_content"
    /\ shared' = [shared EXCEPT !.premium_content =
                    Append(@, [negotiation_id |-> result[p].negotiation.id, user_id |-> arg[p].userId])]
    /\ Return(p, [negotiation |-> result[p].negotiation])
    /\ UNCHANGED <<op, arg, history>>

\* ---- unlockNegotiation ----
\* update ... set is_unlocked = true where id = negotiationId and user_id = userId
unlockNegotiation_unlock(p) ==
    /\ CanStart(p)
    /\ \E negotiationId \in 1 .. MaxNegotiations :
        /\ Begin(p, "unlockNegotiation", [negotiationId |-> negotiationId, userId |-> "u1"])
        /\ shared' = [shared EXCEPT !.negotiations_v2 =
                        [i \in DOMAIN @ |->
                            IF @[i].id = negotiationId /\ @[i].user_id = "u1"
                            THEN [@[i] EXCEPT !.is_unlocked = TRUE, !.status = "unlocked"]
                            ELSE @[i]]]
        /\ Goto(p, "select_negotiation", [none |-> TRUE])
    /\ history' = Started(p)

unlockNegotiation_negotiation(p) ==
    /\ pc[p] = "select_negotiation"
    /\ IF arg[p].negotiationId \in DOMAIN shared.negotiations_v2
       THEN Goto(p, "select_user", [neg |-> shared.negotiations_v2[arg[p].negotiationId]])
       ELSE Return(p, [success |-> TRUE])
    /\ UNCHANGED <<op, arg, shared, history>>

unlockNegotiation_user(p) ==
    /\ pc[p] = "select_user"
    /\ IF arg[p].userId \in DOMAIN shared.users
       THEN Goto(p, "credit_user", [neg |-> result[p].neg, user |-> shared.users[arg[p].userId]])
       ELSE Return(p, [success |-> TRUE])
    /\ UNCHANGED <<op, arg, shared, history>>

unlockNegotiation_credit(p) ==
    /\ pc[p] = "credit_user"
    /\ LET user == result[p].user
           neg == result[p].neg
       IN  shared' = [shared EXCEPT !.users[arg[p].userId] =
                        [@ EXCEPT !.fees_paid = Numeric(ParseFloatOr0(user.fees_paid) + neg.success_fee),
                                  !.total_saved = Numeric(ParseFloatOr0(user.total_saved) + neg.potential_savings)]]
    /\ history' = [history EXCEPT !.unlockCredits = @ + 1]
    /\ Return(p, [success |-> TRUE])
    /\ UNCHANGED <<op, arg>>

InitPayments ==
    /\ pc = [p \in Procs |-> "idle"]
    /\ op = [p \in Procs |-> "none"]
    /\ arg = [p \in Procs |-> [none |-> TRUE]]
    /\ result = [p \in Procs |-> [none |-> TRUE]]
    /\ shared = EmptyDatabase
    /\ history = NoHistory

NextPayments ==
    \E p \in Procs :
        \/ createCheckoutSession(p)
        \/ processPayment_fetch(p)
        \/ processPayment_processing(p)
        \/ processPayment_final(p)
        \/ markFeePaid_fetch(p)
        \/ markFeePaid_update(p)
        \/ updateUserLedger_fetch(p)
        \/ updateUserLedger_update(p)
        \/ createNegotiation_insert(p)
        \/ createNegotiation_content(p)
        \/ unlockNegotiation_unlock(p)
        \/ unlockNegotiation_negotiation(p)
        \/ unlockNegotiation_user(p)
        \/ unlockNegotiation_credit(p)

SpecPayments == InitPayments /\ [][NextPayments]_vars

\* ======================================================================
\* Claims
\* ======================================================================

\* C1: calculateSmartFee quick-win tier: for every grossSavings <= 50 the
\* feeType is "quick_win"; the fee is 0 when grossSavings <= 0 and exactly 10
\* when 0 < grossSavings <= 50, the boundary 50 included.
C1_QuickWinTier ==
    (FeeReturned /\ arg <= Dollars(50)) =>
        /\ result.feeType = "quick_win"
        /\ (arg <= 0 => result.fee = 0)
        /\ (arg > 0 => result.fee = Dollars(10))

C1_Witness ==
    FeeReturned /\ arg = Dollars(50) /\ result.fee = Dollars(10) /\ result.feeType = "quick_win"

\* C2: calculateSmartFee success tier: for every grossSavings > 50 the feeType
\* is "success_fee" and the fee is grossSavings x 0.20 rounded to the cent
\* (a whole number of cents nearest to grossSavings / 5); 50.01
\* gives 10.00, and 1000 gives fee 200 with netSavings 800.
C2_SuccessTier ==
    (FeeReturned /\ arg > Dollars(50)) =>
        /\ result.feeType = "success_fee"
        /\ result.fee % 10 = 0
        /\ 5 * result.fee - 25 <= arg
        /\ arg <= 5 * result.fee + 25
        /\ (arg = 50010 => result.fee = Dollars(10))
        /\ (arg = Dollars(1000) => result.fee = Dollars(200) /\ result.netSavings = Dollars(800))

C2_Witness ==
    FeeReturned /\ arg = 60025 /\ result.fee = 12010 /\ result.feeType = "success_fee"

\* C3: for every input of calculateSmartFee the returned netSavings equals
\* the returned grossSavings minus the returned fee, to the cent.
C3_NetIsGrossMinusFee ==
    FeeReturned => result.netSavings = result.grossSavings - result.fee

\* C4: analyzeByCategory called with a category that is not one of medical,
\* auto, rent, utility always throws and returns no result; called with one
\* of the four it returns and does not throw.
C4_UnknownCategoryThrows ==
    Called =>
        /\ (arg.category \notin {"medical", "auto", "rent", "utility"} =>
                pc = "threw" /\ result.threw /\ "value" \notin DOMAIN result)
        /\ (arg.category \in {"medical", "auto", "rent", "utility"} =>
                pc = "returned" /\ ~result.threw /\ result.value.category = arg.category)

C4_Witness ==
    /\ pc = "threw" /\ op = "analyzeByCategory"
    /\ arg.category = "dental"
    /\ arg.about.kind = "unknown"
    /\ result.threw

\* C5: in every result returned by any of the four analyzers, potentialSavings
\* equals the sum of the savings of its lineItems, rounded to cents.
C5_PotentialSavingsIsSum ==
    AnalysisReturned =>
        result.value.potentialSavings = NRoundCents(NSumOf(LineItems, "savings"))

C5_Witness ==
    /\ AnalysisReturned
    /\ arg.category = "rent"
    /\ Len(LineItems) >= 3
    /\ result.value.potentialSavings > LineItems[1].savings
    /\ result.value.potentialSavings = RoundCents(SumOf(LineItems, "savings"))

\* C6: every item of every analyzer's result has savings equal to billedAmount
\* minus fairPrice rounded to cents (so savings = billedAmount where fairPrice
\* is 0), the utility EST_OVER and half-contested BACK_BILL items included.
C6_SavingsIsBilledMinusFair ==
    \A k \in 1..Len(LineItems) :
        LineItems[k].savings
            = NRoundCents(NSub(LineItems[k].billedAmount, LineItems[k].fairPrice))

\* The charges, premiums, fees and periods the extractors read from the
\* text of the call.
RentExtract == extractRentCharges(arg.text)
UtilityExtract == extractBillingPeriods(arg.text)
KnownFees == SelectSeq(RentExtract.charges, LAMBDA c : c.key \in DOMAIN QUESTIONABLE_FEES)
EstimatedCountOf(periods) == Len(SelectSeq(periods, LAMBDA p : p.isEstimated))

\* C7: for a medical statement line holding one procedure code of the
\* fair-price table and one $-prefixed amount a > 1.3 x the code's fair price,
\* the result has a flagged item for that code with billedAmount = a and
\* savings = a - fair price (the digits of the code are never the amount).
C7_MedicalEndToEnd ==
    (/\ AnalysisReturned
     /\ arg.about.kind = "charge"
     /\ arg.about.code \in DOMAIN FAIR_PRICE_DB
     /\ arg.about.amount * 10 > FAIR_PRICE_DB[arg.about.code] * OVERCHARGE_THRESHOLD) =>
        \E k \in ItemsWithCode(arg.about.code) :
            /\ LineItems[k].billedAmount = arg.about.amount
            /\ LineItems[k].savings = arg.about.amount - FAIR_PRICE_DB[arg.about.code]

\* The example of C7 behaves as stated: 99285 with $2,450.00 saves 1740.00.
C7_Witness ==
    /\ AnalysisReturned
    /\ arg.about.kind = "charge" /\ arg.about.code = "99285" /\ arg.about.amount = Dollars(2450)
    /\ \E k \in ItemsWithCode("99285") :
            LineItems[k].billedAmount = Dollars(2450) /\ LineItems[k].savings = Dollars(1740)

\* The fee items of a rent result against the fees extracted: a fee is
\* flagged exactly when its amount exceeds the ceiling of its type, with that
\* ceiling as fairPrice and confidence 90 for a ceiling of 0, else 75;
\* saved(amount, ceiling) is the savings the item must show.
RentFeesFlagged(saved(_, _)) ==
    (AnalysisReturned /\ arg.category = "rent") =>
        LET fees == KnownFees
        IN  /\ \A j \in 1..Len(fees) :
                LET amount == fees[j].amount
                    maxReasonable == QUESTIONABLE_FEES[fees[j].key]
                    flagged == {k \in ItemsWithCode(ToUpper(fees[j].key)) :
                                    LineItems[k].billedAmount = amount}
                IN  /\ (amount > maxReasonable) <=> (flagged # {})
                    /\ \A k \in flagged :
                        /\ LineItems[k].fairPrice = maxReasonable
                        /\ LineItems[k].savings = saved(amount, maxReasonable)
                        /\ LineItems[k].confidence
                                = IF maxReasonable = 0 THEN Conf(90) ELSE Conf(75)
            /\ \A k \in 1..Len(LineItems) :
                LineItems[k].code \in {ToUpper(key) : key \in DOMAIN QUESTIONABLE_FEES} =>
                    \E j \in 1..Len(fees) :
                        /\ ToUpper(fees[j].key) = LineItems[k].code
                        /\ fees[j].amount = LineItems[k].billedAmount

\* C8 (as amended): every extracted rent fee of a known type is flagged if
\* and only if amount > maxReasonable; the item has fairPrice = maxReasonable,
\* savings = amount - maxReasonable rounded to cents, and confidence 90 when
\* maxReasonable is 0 and 75 otherwise.
C8_RentFeesRounded == RentFeesFlagged(LAMBDA a, m : RoundCents(a - m))

\* C8 (as stated): the same with savings = amount - maxReasonable exactly.
C8_RentFeesExact == RentFeesFlagged(LAMBDA a, m : a - m)

C8_Witness ==
    /\ AnalysisReturned
    /\ arg.about.kind = "fee" /\ arg.about.label = "Admin/Processing Fee"
    /\ arg.about.amount = Dollars(35)
    /\ \E k \in ItemsWithCode("ADMIN_FEE") :
            /\ LineItems[k].billedAmount = Dollars(35)
            /\ LineItems[k].fairPrice = 0
            /\ LineItems[k].savings = Dollars(35)
            /\ LineItems[k].confidence = Conf(90)

\* C9: a utility result has exactly one BACK_BILL item whenever the back-bill
\* amount read is > 0: with more than 12 estimated periods it has fairPrice 0,
\* savings = the amount and confidence 92; with 12 or fewer it has fairPrice =
\* half the amount and confidence 65. With no back-bill amount there is none.
C9_BackBilling ==
    (AnalysisReturned /\ arg.category = "utility") =>
        LET x == UtilityExtract
            backBillAmount == x.backBillAmount
            estimated == EstimatedCountOf(x.periods)
            items == ItemsWithCode("BACK_BILL")
        IN  /\ NGt(backBillAmount, 0) =>
                /\ Cardinality(items) = 1
                /\ \A k \in items :
                    /\ LineItems[k].billedAmount = backBillAmount
                    /\ estimated > 12 =>
                        /\ LineItems[k].fairPrice = 0
                        /\ LineItems[k].savings = backBillAmount
                        /\ LineItems[k].confidence = Conf(92)
                    /\ estimated <= 12 =>
                        /\ 2 * LineItems[k].fairPrice = backBillAmount
                        /\ LineItems[k].confidence = Conf(65)
            /\ ~NGt(backBillAmount, 0) => items = {}

C9_Witness ==
    /\ AnalysisReturned
    /\ arg.about.kind = "backbill" /\ arg.about.estimated = 13
    /\ EstimatedCountOf(UtilityExtract.periods) = 13
    /\ UtilityExtract.backBillAmount = Dollars(1334)
    /\ \E k \in ItemsWithCode("BACK_BILL") :
            LineItems[k].fairPrice = 0 /\ LineItems[k].confidence = Conf(92)

\* Nothing is extracted from the text of the call: no medical charge, no auto
\* premium, no rent amount (base rent, late fee, fee or increase) and no
\* utility period or amount.
NothingExtracted ==
    CASE arg.category = "medical" -> extractCharges(arg.text) = <<>>
      [] arg.category = "auto" -> extractPremiums(arg.text) = <<>>
      [] arg.category = "rent" ->
            LET x == RentExtract
            IN  /\ x.charges = <<>> /\ x.baseRent = 0
                /\ x.lateFee = 0 /\ ~x.rentIncrease.found
      [] arg.category = "utility" ->
            LET x == UtilityExtract
            IN  x.periods = <<>> /\ x.backBillAmount = 0 /\ x.serviceFee = 0
      [] OTHER -> FALSE

\* C10: for a text in which no charge, premium, fee or billing-period pattern
\* is found, each of the four analyzers returns (does not throw) a result
\* with empty lineItems and totalBilled = totalFairPrice = potentialSavings = 0.
C10_NothingFoundIsEmpty ==
    (Called /\ NothingExtracted) =>
        /\ pc = "returned"
        /\ result.value.lineItems = <<>>
        /\ result.value.totalBilled = 0
        /\ result.value.totalFairPrice = 0
        /\ result.value.potentialSavings = 0

C10_Witness ==
    /\ AnalysisReturned /\ NothingExtracted
    /\ arg.category = "rent"
    /\ RentExtract.noticeDays = 15
    /\ RentExtract.gracePeriod = 0
    /\ result.value.lineItems = <<>>
    /\ result.value.totalBilled = 0

\* C11: NaN never propagates: no field of a returned result (totalBilled,
\* totalFairPrice, potentialSavings, or an item's billedAmount, fairPrice,
\* savings) is NaN, and no extracted utility period holds a NaN usage, rate
\* or amount.
C11_NoNaN ==
    AnalysisReturned =>
        /\ ~isNaN(result.value.totalBilled)
        /\ ~isNaN(result.value.totalFairPrice)
        /\ ~isNaN(result.value.potentialSavings)
        /\ \A k \in 1..Len(LineItems) :
                /\ ~isNaN(LineItems[k].billedAmount)
                /\ ~isNaN(LineItems[k].fairPrice)
                /\ ~isNaN(LineItems[k].savings)
        /\ arg.category = "utility" =>
                LET x == UtilityExtract
                IN  /\ ~isNaN(x.backBillAmount) /\ ~isNaN(x.serviceFee)
                    /\ \A k \in 1..Len(x.periods) :
                        /\ ~isNaN(x.periods[k].usage)
                        /\ ~isNaN(x.periods[k].rate)
                        /\ ~isNaN(x.periods[k].amount)

\* The normalized names of the rows of the statement of the call that occur
\* on at least n rows.
NamesWithRows(n) ==
    LET rows == parseCSV(arg.text)
        names == [k \in 1..Len(rows) |-> normalizeName(rows[k].description)]
    IN  {names[k] : k \in {j \in 1..Len(rows) :
            names[j] # "" /\ Cardinality({i \in 1..Len(rows) : names[i] = names[j]}) >= n}}

\* C13: statement analyzer: a normalized merchant group is in recurring if
\* and only if it has at least 2 transactions (once each); its occurrences
\* are in ascending date order and it is flagged if and only if the latest
\* amount exceeds the one before it by more than 10% (exactly 10% is not
\* flagged); flaggedCount is the number of flagged groups.
C13_RecurringAndFlagged ==
    StatementReturned =>
        LET recurring == result.recurring
        IN  /\ {recurring[k].normalizedName : k \in 1..Len(recurring)} = NamesWithRows(2)
            /\ Cardinality(NamesWithRows(2)) = Len(recurring)
            /\ \A k \in 1..Len(recurring) :
                LET occ == recurring[k].occurrences
                    n == Len(occ)
                IN  /\ n >= 2
                    /\ \A i, j \in 1..n : i < j => ~DateAfter(occ[i], occ[j])
                    /\ recurring[k].flagged <=>
                            10 * (occ[n].amount - occ[n - 1].amount) > occ[n - 1].amount
            /\ result.flaggedCount = Cardinality({k \in 1..Len(recurring) : recurring[k].flagged})

\* C12: whatever calls ran before or between them, two calls of the same
\* operation with identical arguments returned identical results, every
\* analysis result is the one the call gives on its own, and the module's
\* reference tables and RegExp positions are as they were when it loaded.
C12_CallsIndependent ==
    /\ \A i, j \in 1..Len(history) :
            (history[i].op = history[j].op /\ history[i].arg = history[j].arg)
                => history[i].result = history[j].result
    /\ \A i \in 1..Len(history) :
            history[i].op = "analyzeByCategory" =>
                history[i].result = analyzeByCategory(history[i].arg.text, history[i].arg.category)
    /\ shared = ModuleState

\* The same auto analysis ran twice, flagging a premium each time, with a
\* call of another operation in between.
C12_Witness ==
    /\ Len(history) = 3
    /\ history[1].op = "analyzeByCategory" /\ history[1].arg.category = "auto"
    /\ history[2].op # "analyzeByCategory"
    /\ history[3].op = history[1].op /\ history[3].arg = history[1].arg
    /\ history[3].result = history[1].result
    /\ history[3].result.value.lineItems # <<>>

\* The confidences of the items the analysis of an input flags.
ConfidencesOf(input) ==
    LET Of(items) == {items[k].confidence : k \in 1..Len(items)}
    IN  Of(analyzeByCategory(input.text, input.category).value.lineItems)

\* C14: every flagged item of every analyzer has a confidence from 0 to 100;
\* a medical or an auto item has at most 95, and at least the confidence of
\* any item of the same code or coverage billed a smaller amount (the fair
\* price being that of the code or coverage in both).
C14_ConfidenceRange ==
    AnalysisReturned =>
        /\ \A k \in 1..Len(LineItems) :
                /\ LineItems[k].confidence >= 0
                /\ LineItems[k].confidence <= Conf(100)
                /\ arg.category \in {"medical", "auto"} => LineItems[k].confidence <= Conf(95)
        /\ (arg.about.kind = "charge" /\ LineItems # <<>>) =>
                \A other \in MedChargeInputs :
                    (other.about.code = arg.about.code /\ other.about.amount <= arg.about.amount) =>
                        \A low \in ConfidencesOf(other) :
                            \E k \in 1..Len(LineItems) : LineItems[k].confidence >= low
        /\ (arg.about.kind = "coverage" /\ LineItems # <<>>) =>
                \A other \in AutoLineInputs :
                    (other.about.label = arg.about.label /\ other.about.new <= arg.about.new) =>
                        \A low \in ConfidencesOf(other) :
                            \E k \in 1..Len(LineItems) : LineItems[k].confidence >= low

\* A medical charge flagged below the cap while a smaller amount of the same
\* code is flagged with a strictly lower confidence.
C14_Witness ==
    /\ AnalysisReturned
    /\ arg.about.kind = "charge"
    /\ Len(LineItems) = 1
    /\ LineItems[1].confidence < Conf(95)
    /\ \E other \in MedChargeInputs :
            /\ other.about.code = arg.about.code
            /\ other.about.amount < arg.about.amount
            /\ \E low \in ConfidencesOf(other) : low < LineItems[1].confidence

\* The charges extracted from the text of a medical call.
MedicalCharges == extractCharges(arg.text)

\* C15: the flagged items of a medical result are exactly the extracted
\* charges whose code is in the fair-price table and whose billedAmount is
\* more than 1.3 x the fair price (a charge at exactly 1.3 x is not flagged,
\* nor is a charge whose code is not in the table), counted line by line;
\* totalBilled is the sum of the billedAmount of all extracted charges.
C15_MedicalRule ==
    (AnalysisReturned /\ arg.category = "medical") =>
        LET charges == MedicalCharges
            Over(j) == /\ charges[j].code \in DOMAIN FAIR_PRICE_DB
                       /\ charges[j].billedAmount * 10
                            > FAIR_PRICE_DB[charges[j].code] * OVERCHARGE_THRESHOLD
        IN  /\ Len(LineItems) = Cardinality({j \in 1..Len(charges) : Over(j)})
            /\ \A j \in 1..Len(charges) :
                    Cardinality({k \in 1..Len(LineItems) :
                                    /\ LineItems[k].code = charges[j].code
                                    /\ LineItems[k].billedAmount = charges[j].billedAmount})
                    = Cardinality({i \in 1..Len(charges) :
                                    /\ Over(i)
                                    /\ charges[i].code = charges[j].code
                                    /\ charges[i].billedAmount = charges[j].billedAmount})
            /\ result.value.totalBilled = RoundCents(SumOf(charges, "billedAmount"))

\* A charge of a code outside the table next to a flagged one: only the
\* second is an item, both are in totalBilled.
C15_Witness ==
    /\ AnalysisReturned /\ arg.category = "medical"
    /\ Len(LineItems) = 1
    /\ LET Unlisted(charges) ==
                /\ Len(charges) = 2
                /\ \E j \in 1..2 : charges[j].code \notin DOMAIN FAIR_PRICE_DB
                /\ result.value.totalBilled = charges[1].billedAmount + charges[2].billedAmount
       IN  Unlisted(MedicalCharges)

\* C16: the totalFairPrice of a medical result is the sum of the fairPrice of
\* the flagged items plus the sum of the billedAmount of every extracted
\* charge that was not flagged, a charge being flagged when its code is in the
\* table and its amount above 1.3 x the fair price, also when another line of
\* the same code is flagged.
C16_MedicalTotalFair ==
    (AnalysisReturned /\ arg.category = "medical") =>
        LET Total(charges) ==
                LET Over(c) == /\ c.code \in DOMAIN FAIR_PRICE_DB
                               /\ c.billedAmount * 10 > FAIR_PRICE_DB[c.code] * OVERCHARGE_THRESHOLD
                IN  SumOf(LineItems, "fairPrice")
                    + SumOf(SelectSeq(charges, LAMBDA c : ~Over(c)), "billedAmount")
        IN  result.value.totalFairPrice = RoundCents(Total(MedicalCharges))

\* The premiums extracted from the text of an auto call.
AutoPremiums == extractPremiums(arg.text)

\* C17: a coverage line gives a premium only if its second dollar amount is
\* greater than its first; an extracted premium is flagged exactly when
\* newPremium > 1.15 x the state average of its coverage type, with savings =
\* newPremium - average and confidence = min(95, round((newPremium - average)
\* / average x 100)); totalBilled is the sum of newPremium and totalFairPrice
\* the sum of the averages over all extracted premiums.
C17_AutoRule ==
    (AnalysisReturned /\ arg.category = "auto") =>
        LET Rule(premiums) ==
                LET Over(p) == p.newPremium * 100 > STATE_AVG_RATES[p.key] * HIKE_THRESHOLD
                    flagged == SelectSeq(premiums, Over)
                IN  /\ \A j \in 1..Len(premiums) :
                            premiums[j].newPremium > premiums[j].previousPremium
                    /\ arg.about.kind = "coverage" =>
                            (premiums # <<>> => arg.about.new > arg.about.prev)
                    /\ Len(LineItems) = Len(flagged)
                    /\ \A k \in 1..Len(flagged) :
                            LET average == STATE_AVG_RATES[flagged[k].key]
                            IN  /\ k <= Len(LineItems)
                                /\ LineItems[k].code = ToUpper(flagged[k].key)
                                /\ LineItems[k].billedAmount = flagged[k].newPremium
                                /\ LineItems[k].fairPrice = average
                                /\ LineItems[k].savings = flagged[k].newPremium - average
                                /\ LineItems[k].confidence =
                                        Conf(Min(95, MulDivRound(flagged[k].newPremium - average,
                                                                 100, average)))
                    /\ result.value.totalBilled = RoundCents(SumOf(premiums, "newPremium"))
                    /\ result.value.totalFairPrice = RoundCents(SumAvgPremium(premiums))
        IN  Rule(AutoPremiums)

\* C18: a rent line naming a CAM reconciliation, a CAM adjustment or a CAM
\* true-up with an amount is recorded with the key cam_reconciliation, not
\* cam_fee, and flagged as one item CAM_RECONCILIATION with fairPrice 0 and
\* confidence 90.
C18_CamReconciliation ==
    (/\ AnalysisReturned
     /\ arg.about.kind = "fee"
     /\ Test(FEE_PATTERNS[8].pattern, ToLower(arg.about.label))) =>
        /\ \A j \in 1..Len(KnownFees) : KnownFees[j].key = "cam_reconciliation"
        /\ ItemsWithCode("CAM_FEE") = {}
        /\ Cardinality(ItemsWithCode("CAM_RECONCILIATION")) = 1
        /\ \A k \in ItemsWithCode("CAM_RECONCILIATION") :
                /\ LineItems[k].billedAmount = arg.about.amount
                /\ LineItems[k].fairPrice = 0
                /\ LineItems[k].confidence = Conf(90)

\* The notice items of a rent result against what was read: with a notice
\* shorter than 30 days and an increase pair there is exactly one
\* NOTICE_VIOLATION with billedAmount = savings = current - previous and
\* confidence 92; with such a notice, no pair and a base rent > 0 exactly one
\* with savings 0 and confidence 90; with such a notice, no pair and no base
\* rent the number given by unrented; with no notice read or one of 30 days
\* or more there is none.
NoticeRule(unrented) ==
    (AnalysisReturned /\ arg.category = "rent") =>
        LET Rule(x) ==
                LET items == ItemsWithCode("NOTICE_VIOLATION")
                    short == x.noticeDays # NULL /\ x.noticeDays < MIN_NOTICE_DAYS
                IN  /\ (short /\ x.rentIncrease.found) =>
                        /\ Cardinality(items) = 1
                        /\ \A k \in items :
                            /\ LineItems[k].billedAmount
                                    = x.rentIncrease.current - x.rentIncrease.previous
                            /\ LineItems[k].savings = LineItems[k].billedAmount
                            /\ LineItems[k].confidence = Conf(92)
                    /\ (short /\ ~x.rentIncrease.found /\ x.baseRent > 0) =>
                        /\ Cardinality(items) = 1
                        /\ \A k \in items :
                            LineItems[k].savings = 0 /\ LineItems[k].confidence = Conf(90)
                    /\ (short /\ ~x.rentIncrease.found /\ x.baseRent <= 0) =>
                        Cardinality(items) = unrented
                    /\ ~short => items = {}
        IN  Rule(RentExtract)

\* C19 as stated: with a notice known and shorter than 30 days there is
\* always exactly one NOTICE_VIOLATION item (92 with an increase pair, 90
\* with a base rent and no pair), and none when the notice is unknown or of
\* 30 days or more.
C19_NoticeAlwaysFlagged == NoticeRule(1)

\* C19, amended: with a notice known and shorter than 30 days there is exactly
\* one NOTICE_VIOLATION item when an increase pair was read (billedAmount =
\* savings = current - previous, confidence 92) or, failing that, a base rent
\* > 0 (savings 0, confidence 90), and none when neither was read; there is
\* none when the notice is unknown or of 30 days or more.
C19_NoticeRule == NoticeRule(0)

\* A 15-day notice of an increase from 1,700 to 1,850: one item of 150.
C19_Witness ==
    /\ AnalysisReturned /\ arg.category = "rent"
    /\ LET Read(x) == x.noticeDays = 15 /\ x.rentIncrease.found
       IN  Read(RentExtract)
    /\ \E k \in ItemsWithCode("NOTICE_VIOLATION") :
            LineItems[k].savings = Dollars(150) /\ LineItems[k].confidence = Conf(92)

\* C20: with max = baseRent x 0.05, a late fee read from the text that exceeds
\* max gives exactly one LATE_FEE item with fairPrice = max, savings = lateFee
\* - max and confidence 88, and max counts in totalFairPrice; a late fee of at
\* most max gives no LATE_FEE item and counts in full in totalFairPrice; for
\* every base rent, including 0 when no base-rent line was read.
C20_LateFeeCap ==
    (AnalysisReturned /\ arg.category = "rent") =>
        LET Rule(x, known) ==
                LET items == ItemsWithCode("LATE_FEE")
                    over == x.lateFee * 100 > x.baseRent * MAX_LATE_FEE_PERCENT
                    counted == result.value.totalFairPrice - x.baseRent - SumMaxReasonable(known)
                IN  x.lateFee > 0 =>
                        /\ over =>
                            /\ Cardinality(items) = 1
                            /\ \A k \in items :
                                /\ LineItems[k].fairPrice * 100 = x.baseRent * MAX_LATE_FEE_PERCENT
                                /\ LineItems[k].savings = x.lateFee - LineItems[k].fairPrice
                                /\ LineItems[k].confidence = Conf(88)
                            /\ counted * 100 = x.baseRent * MAX_LATE_FEE_PERCENT
                        /\ ~over =>
                            /\ items = {}
                            /\ counted = x.lateFee
        IN  Rule(RentExtract, KnownFees)

\* C21: whenever the grace period read is known and shorter than 3 days and a
\* late fee was read, the result has exactly one NO_GRACE item with
\* billedAmount = savings = lateFee, fairPrice 0 and confidence 85, next to
\* the LATE_FEE item if the late fee exceeds 5% of the base rent; with no
\* grace period read, or one of 3 days or more, there is no NO_GRACE item.
C21_NoGrace ==
    (AnalysisReturned /\ arg.category = "rent") =>
        LET Rule(x) ==
                LET items == ItemsWithCode("NO_GRACE")
                    short == x.gracePeriod # NULL /\ x.gracePeriod < MIN_GRACE_PERIOD_DAYS
                IN  /\ (short /\ x.lateFee > 0) =>
                        /\ Cardinality(items) = 1
                        /\ \A k \in items :
                            /\ LineItems[k].billedAmount = x.lateFee
                            /\ LineItems[k].savings = x.lateFee
                            /\ LineItems[k].fairPrice = 0
                            /\ LineItems[k].confidence = Conf(85)
                        /\ x.lateFee * 100 > x.baseRent * MAX_LATE_FEE_PERCENT =>
                            ItemsWithCode("LATE_FEE") # {}
                    /\ ~short => items = {}
        IN  Rule(RentExtract)

\* C22: the totalBilled of a rent result is the base rent plus the amount of
\* every matched fee plus the late fee plus the rent-increase amount, and its
\* totalFairPrice is the base rent plus, for each matched fee, the ceiling of
\* its type when the fee exceeds it and the fee itself otherwise (plus the
\* late fee up to its cap, as the late-fee rule gives).
C22_RentTotals ==
    (AnalysisReturned /\ arg.category = "rent") =>
        LET Totals(x, known) ==
                LET FairOf(c) == Min(c.amount, QUESTIONABLE_FEES[c.key])
                    fairFees == [k \in 1..Len(known) |-> [amount |-> FairOf(known[k])]]
                    increase == IF x.rentIncrease.found
                                THEN x.rentIncrease.current - x.rentIncrease.previous ELSE 0
                    lateFair == IF x.lateFee > 0 /\ x.baseRent > 0
                                THEN Min(x.lateFee, MaxLateOf(x.baseRent)) ELSE 0
                IN  /\ result.value.totalBilled
                            = RoundCents(x.baseRent + SumOf(known, "amount") + x.lateFee + increase)
                    /\ result.value.totalFairPrice
                            = RoundCents(x.baseRent + SumOf(fairFees, "amount") + lateFair)
        IN  Totals(RentExtract, KnownFees)

\* C23: a utility result has an EST_OVER item exactly when more than 3
\* periods are estimated and the average estimated usage is more than 1.15 x
\* the average actual usage; the item has billedAmount = the total of the
\* estimated amounts, fairPrice = that total x average actual / average
\* estimated usage (in cents) and confidence 78. With no actual period there
\* is no EST_OVER item.
C23_EstimatedReadings ==
    (AnalysisReturned /\ arg.category = "utility") =>
        LET Rule(periods) ==
                LET est == SelectSeq(periods, LAMBDA p : p.isEstimated)
                    act == SelectSeq(periods, LAMBDA p : ~p.isEstimated)
                    sumEst == NSumOf(est, "usage")
                    sumAct == NSumOf(act, "usage")
                    exceeds == /\ Len(est) > 0 /\ Len(act) > 0
                               /\ ~isNaN(sumEst) /\ ~isNaN(sumAct) /\ sumEst > 0
                               /\ sumEst * 20 * Len(act) > 23 * sumAct * Len(est)
                    items == ItemsWithCode("EST_OVER")
                IN  /\ (Len(est) > MIN_ESTIMATED_PERIODS /\ exceeds) =>
                        /\ Cardinality(items) = 1
                        /\ \A k \in items :
                            /\ LineItems[k].billedAmount = NSumOf(est, "amount")
                            /\ LineItems[k].fairPrice
                                = RoundCentsOfFraction(NSumOf(est, "amount"),
                                                       sumAct * Len(est), sumEst * Len(act))
                            /\ LineItems[k].confidence = Conf(78)
                    /\ ~(Len(est) > MIN_ESTIMATED_PERIODS /\ exceeds) => items = {}
                    /\ Len(act) = 0 => items = {}
        IN  Rule(UtilityExtract.periods)

C25_OverchargesAndOrder ==
    StatementReturned =>
        LET Rule(recurring) ==
                LET Over(k) == IF recurring[k].flagged
                               THEN Max(0, recurring[k].latestAmount - recurring[k].avgAmount)
                               ELSE 0
                    overs == [k \in 1..Len(recurring) |-> [amount |-> Over(k)]]
                IN  /\ result.potentialOvercharges = RoundCents(SumOf(overs, "amount"))
                    /\ \A i, j \in 1..Len(recurring) :
                        i < j =>
                            /\ recurring[j].flagged => recurring[i].flagged
                            /\ recurring[i].flagged = recurring[j].flagged =>
                                recurring[i].latestAmount >= recurring[j].latestAmount
        IN  Rule(result.recurring)

\* A flagged group with the smaller latest amount listed before an unflagged
\* one, and only the flagged one counted.
C25_Witness ==
    /\ StatementReturned
    /\ Len(result.recurring) = 2
    /\ result.recurring[1].flagged /\ ~result.recurring[2].flagged
    /\ result.recurring[1].latestAmount < result.recurring[2].latestAmount
    /\ result.recurring[2].latestAmount > result.recurring[2].avgAmount
    /\ result.potentialOvercharges
            = result.recurring[1].latestAmount - result.recurring[1].avgAmount
    /\ result.potentialOvercharges > 0

\* ---- payments and the ledger ----

PaymentsReturned == history.requests > 0 /\ \A p \in Procs : Idle(p)

\* the request that slot p takes in this step
Takes(p, name) ==
    /\ history'.requests = history.requests + 1
    /\ history'.last = p
    /\ op'[p] = name

PaymentMoves == {<<"pending", "processing">>, <<"processing", "completed">>, <<"processing", "failed">>}

\* C26: a payment record's status only moves pending -> processing ->
\* completed or failed; processPayment on a session that is not pending
\* returns failure and changes neither the payment record nor the ledger; the
\* ledger is credited by markFeePaid at most once for each session, also when
\* two processPayment calls for the same session interleave.
C26_StatusMoves ==
    \A s \in DOMAIN shared.payments :
        \/ shared'.payments[s].status = shared.payments[s].status
        \/ <<shared.payments[s].status, shared'.payments[s].status>> \in PaymentMoves

C26_NotPendingRefused ==
    \A p \in Procs :
        (/\ Takes(p, "processPayment")
         /\ arg'[p].sessionId \in DOMAIN shared.payments
         /\ shared.payments[arg'[p].sessionId].status # "pending")
        => /\ pc'[p] = "idle"
           /\ result'[p].returned.success = FALSE
           /\ shared' = shared
           /\ history'.credits = history.credits

C26_CreditedOnce == \A s \in 1 .. MaxSessions : history'.credits[s] <= 1

C26_PaymentStateMachine ==
    [][C26_StatusMoves /\ C26_NotPendingRefused /\ C26_CreditedOnce]_vars

\* C27: after any set of successful updateUserLedger and markFeePaid calls
\* for one user, in any interleaving, total_saved is its initial value plus the
\* sum of all savings passed to updateUserLedger (no increment is lost), and
\* fees_owed has received every fee passed as well.
C27_NoLostUpdate ==
    (PaymentsReturned /\ history.unlockCredits = 0)
    => /\ shared.users["u1"].total_saved = NewUserRow.total_saved + history.saved
       /\ (\A s \in 1 .. MaxSessions : history.credits[s] = 0)
            => shared.users["u1"].fees_owed = NewUserRow.fees_owed + history.owed

RECURSIVE CompletedAmount(_)
CompletedAmount(payments) ==
    IF payments = <<>> THEN 0
    ELSE (IF Head(payments).status = "completed" /\ Head(payments).user_id = "u1"
          THEN Head(payments).amount ELSE 0) + CompletedAmount(Tail(payments))

\* C28: fees_paid changes only when a payment is completed: once the running
\* requests have returned, the user's fees_paid is the sum of the amounts of
\* the user's payment sessions whose status is completed; updateUserLedger,
\* unlockNegotiation and a failed or declined processPayment leave it alone.
C28_FeesPaidIsCompletedPayments ==
    PaymentsReturned => shared.users["u1"].fees_paid = CompletedAmount(shared.payments)

\* C29: in every result returned by any of the four analyzers,
\* potentialSavings never exceeds totalBilled, whatever records were
\* extracted (a late fee flagged by the cap and by the missing grace period
\* included).
C29_SavingsWithinBill ==
    AnalysisReturned => ~NGt(result.value.potentialSavings, result.value.totalBilled)

\* C30: calculateSmartFee never charges more than was saved: for every
\* grossSavings > 0 the fee is at most grossSavings and netSavings >= 0, in
\* the quick-win branch as in the success-fee branch.
C30_FeeWithinSavings ==
    (FeeReturned /\ arg > 0)
    => /\ result.fee <= arg
       /\ result.netSavings >= 0

====
